---------------------------- MODULE Spec2Model ----------------------------
(***************************************************************************)
(* Model of the caching, connection-pooling and error-recovery layer of     *)
(* apex-sdk:                                                               *)
(*   apex-sdk-evm/src/cache.rs        Cache<K,V>, EvmCache                  *)
(*   apex-sdk-evm/src/pool.rs         EndpointHealth, PooledConnection,     *)
(*                                    ConnectionPool                        *)
(*   apex-sdk/src/error_recovery.rs   is_retryable, with_retry,             *)
(*                                    CircuitBreaker                        *)
(*   apex-sdk/src/performance.rs      RateLimiter                           *)
(* Time is a discrete clock `now` (Instant::now()); a Duration is a number  *)
(* of clock ticks.  An Option<T> is a set with at most one element.         *)
(***************************************************************************)
EXTENDS Integers, Sequences, FiniteSets, TLC

VARIABLES
    now,        \* the monotonic clock read by Instant::now() / elapsed()
    max_size,   \* Cache.max_size
    store,      \* Cache.store: HashMap<K, CacheEntry<V>>
    stats,      \* Cache.stats: CacheStats
    last,       \* the last completed call: [op, key, ret]
    hist,       \* the caller's most recent set(WatchedKey, v, ttl), if any
    pc,         \* per task: where it is in its current cache call
    call,       \* per task: the call it is making [op, key, value, ttl]
    snap,       \* per task: the store and stats it read under its locks
    store_lock, \* RwLock around Cache.store: [readers, writers]
    stats_lock, \* RwLock around Cache.stats: [readers, writers]
    invoked,    \* number of get / set / remove calls the tasks have started, and
                \* whether one started while another task's call was running
    pool_result,    \* what ConnectionPool::with_config returned: "Ok" or "Err"
    endpoints,      \* the endpoint list given to with_config
    connects,       \* per endpoint given, the results of its EvmAdapter::connect calls
    config,         \* ConnectionPool.config: PoolConfig
    connections,    \* ConnectionPool.connections: the EndpointHealth of each
    next_index,     \* ConnectionPool.next_index
    plast,          \* the last completed pool call
    served,         \* the positions returned by the get_connection calls made in a
                    \* row, with no other call and no tick of the clock in between
    checker,        \* the task spawned by start_health_checker: "off", "on", "ended"
    gpc,            \* per task: where it is in its get_connection call
    gattempts,      \* per task: the local `attempts` of its get_connection call
    gindex,         \* per task: the `index` its current probe computed
    gobserved,      \* per task: the cursor values its fetch_add calls returned
    gret,           \* per task: the positions its get_connection calls returned
    rcfg,           \* with_retry: its RetryConfig
    rpc,            \* with_retry: "call" (operation().await), "sleep", "done"
    attempt,        \* with_retry: local `attempt`
    backoff,        \* with_retry: local `backoff`, in ms
    rlog,           \* with_retry: invocations made, failures among them, sleeps
                    \* taken, the delay of the last sleep
    rprev,          \* what the invocation before the last one returned, if any
    rlast,          \* what the last invocation of the operation returned, if any
    rresult,        \* what with_retry returned, if it has
    breaker,        \* the CircuitBreaker
    bpc,            \* CircuitBreaker::call: "idle", or "running" while it awaits
                    \* the wrapped operation
    blast,          \* the last call made through the breaker: the breaker before
                    \* it, whether the operation was invoked, what was returned
    bexec,          \* the kinds of the errors the wrapped operation has returned
    bstreak,        \* successful calls in a row since the breaker last went
                    \* from Open to HalfOpen
    owner,          \* the owner's Arc<EvmCache>: "held" or "dropped"
    cleaner,        \* the task spawned by start_cleanup_task: "off", "sleeping"
                    \* (in sleep(interval).await), "cleaning"
    strong,         \* the strong count of the Arc<EvmCache>
    hpc,            \* run_health_checks: "idle", "locked" (between two probes),
                    \* "probing" (get_block_number().await in flight)
    hidx,           \* run_health_checks: the connection the loop is at
    hheld,          \* run_health_checks: the locks it holds
    limiter,        \* the RateLimiter: [max_requests, window]
    requests,       \* RateLimiter.requests: Vec<Instant>
    apc,            \* per task: where it is in acquire(): "idle", "lock", "sleep"
    wake_at,        \* per task: when its sleep(wait_time) is over
    granted,        \* the times at which acquire() calls returned, in order
    samples,        \* the latencies passed to mark_healthy on connection 0, in order
    ecfg,           \* EvmCache.config: CacheConfig
    tiers,          \* EvmCache: per tier, its Cache [max_size, store, stats]
    elast,          \* the last completed call on the EvmCache: [op, tier, key, ret]
    lprog,          \* per task: the lock steps of the call it is in (<< >> when idle)
    lpos,           \* per task: the step it is at (0 when idle)
    lheld,          \* per lock: the tasks holding it, [readers, writers]
    lqueue          \* per lock: the tasks waiting for it, first come first

cacheVars == <<max_size, store, stats, last, hist>>
taskVars == <<pc, call, snap, store_lock, stats_lock, invoked>>
poolVars == <<pool_result, endpoints, connects, config, connections, next_index, plast,
              served, checker>>
selVars == <<gpc, gattempts, gindex, gobserved, gret>>
retryVars == <<rcfg, rpc, attempt, backoff, rlog, rprev, rlast, rresult>>
breakerVars == <<breaker, bpc, blast, bexec, bstreak>>
cleanupVars == <<owner, cleaner, strong>>
probeVars == <<hpc, hidx, hheld>>
limiterVars == <<limiter, requests, apc, wake_at, granted>>
avgVars == <<samples>>
evmVars == <<ecfg, tiers, elast>>
lockVars == <<lprog, lpos, lheld, lqueue>>
moreVars == <<avgVars, evmVars, lockVars>>
restVars == <<breakerVars, cleanupVars, probeVars, limiterVars, moreVars>>
vars == <<now, cacheVars, taskVars, poolVars, selVars, retryVars, restVars>>

(***************************************************************************)
(* Bounds of the model.                                                    *)
(***************************************************************************)
MaxTime == 2
MaxCacheSize == 2
MaxSets == 3
MaxGets == 1
MaxCalls == 3
MaxFailureCount == 3
MaxNextIndex == 4
MaxSelCalls == 3
MaxRetries == 3
MaxThreshold == 2
BreakerMaxTime == 3
PoolMaxTime == 2

\* The keys, values and TTLs the callers use.  WatchedKey is the key whose
\* history the caller records; it is stored with either value, so that an
\* overwrite can be told from the value it replaces, the other keys with one.
Keys == {"k1", "k2", "k3"}
Values == {"a", "b"}
Ttls == {0, 2}
WatchedKey == "k1"
NoKey == "-"
ValuesFor(key) == IF key = WatchedKey THEN Values ELSE {"a"}

None == {}
Some(v) == {v}

(***************************************************************************)
(* cache.rs: CacheEntry                                                    *)
(***************************************************************************)
CacheEntryNew(value, ttl, t) ==
    [value |-> value, inserted_at |-> t, ttl |-> ttl]

is_expired_swapped(entry, t) == entry.ttl > t - entry.inserted_at

is_expired(entry, t) == t - entry.inserted_at > entry.ttl

(***************************************************************************)
(* cache.rs: CacheStats                                                    *)
(***************************************************************************)
CacheStatsDefault ==
    [hits |-> 0, misses |-> 0, sets |-> 0, evictions |-> 0, entries |-> 0]

(***************************************************************************)
(* cache.rs: EvmCache::with_config gives each tier its capacity            *)
(***************************************************************************)
Tiers == {"balance", "tx_status", "block"}
BlockCacheDivisor == 10

TierCapacity(tier, max_cache_size) ==
    IF tier = "block" THEN max_cache_size \div BlockCacheDivisor
                      ELSE max_cache_size

(***************************************************************************)
(* Map helpers (HashMap::remove, HashMap::insert, HashMap::len)            *)
(***************************************************************************)
MapRemoveAll(st, ks) == [k \in (DOMAIN st) \ ks |-> st[k]]

MapInsert(st, key, entry) ==
    [k \in (DOMAIN st) \cup {key} |-> IF k = key THEN entry ELSE st[k]]

MapLen(st) == Cardinality(DOMAIN st)

ExpiredKeys(st, t) == {k \in DOMAIN st : is_expired(st[k], t)}

\* the candidates of min_by_key(inserted_at): with equal insertion times the
\* HashMap's iteration order decides, so any of them may be the one removed
OldestKeys(st) ==
    {k \in DOMAIN st : \A j \in DOMAIN st : st[k].inserted_at <= st[j].inserted_at}

(***************************************************************************)
(* cache.rs: Cache::get                                                    *)
(***************************************************************************)
GetHit_expiredOnly(st, key, t) == key \in DOMAIN st /\ is_expired(st[key], t)

GetHit(st, key, t) == key \in DOMAIN st /\ ~is_expired(st[key], t)

GetReturn(st, key, t) == IF GetHit(st, key, t) THEN Some(st[key].value) ELSE None

GetStats(st, sts, key, t) ==
    IF GetHit(st, key, t) THEN [sts EXCEPT !.hits = @ + 1]
                          ELSE [sts EXCEPT !.misses = @ + 1]

(***************************************************************************)
(* cache.rs: Cache::set.  The result is the set of outcomes [store, stats] *)
(* the call can produce (one per choice of the oldest key).                *)
(***************************************************************************)
SetNeedsEviction_ignoresPresence(st, key, max) == MapLen(st) >= max

SetNeedsEviction(st, key, max) == MapLen(st) >= max /\ key \notin DOMAIN st

SetAfterExpired(st, key, max, t) ==
    IF SetNeedsEviction(st, key, max) THEN MapRemoveAll(st, ExpiredKeys(st, t)) ELSE st

SetVictims_alwaysOldest(st, key, max, t) ==
    LET s1 == SetAfterExpired(st, key, max, t) IN
    IF SetNeedsEviction(st, key, max) /\ DOMAIN s1 # {}
    THEN {{k} : k \in OldestKeys(s1)}
    ELSE {{}}

SetVictims(st, key, max, t) ==
    LET s1 == SetAfterExpired(st, key, max, t) IN
    IF SetNeedsEviction(st, key, max) /\ MapLen(s1) >= max /\ DOMAIN s1 # {}
    THEN {{k} : k \in OldestKeys(s1)}
    ELSE {{}}

SetOutcomes(st, sts, key, value, ttl, max, t) ==
    LET s1 == SetAfterExpired(st, key, max, t)
        nexp == MapLen(st) - MapLen(s1)
    IN  { LET s2 == MapRemoveAll(s1, victim)
              s3 == MapInsert(s2, key, CacheEntryNew(value, ttl, t))
          IN  [store |-> s3,
               stats |-> [sts EXCEPT !.evictions = @ + nexp + Cardinality(victim),
                                     !.sets = @ + 1,
                                     !.entries = MapLen(s3)]]
          : victim \in SetVictims(st, key, max, t) }

(***************************************************************************)
(* cache.rs: Cache::remove, Cache::clear, Cache::cleanup_expired           *)
(***************************************************************************)
RemoveReturn(st, key) == IF key \in DOMAIN st THEN Some(st[key].value) ELSE None

RemoveStore(st, key) == MapRemoveAll(st, {key})

RemoveStats(st, sts, key) ==
    IF key \in DOMAIN st THEN [sts EXCEPT !.entries = MapLen(RemoveStore(st, key))]
                         ELSE sts

ClearStore(st) == MapRemoveAll(st, DOMAIN st)

ClearStats(sts) == [sts EXCEPT !.entries = 0]

CleanupStore_removesAll(st, t) == MapRemoveAll(st, DOMAIN st)

CleanupStore(st, t) == MapRemoveAll(st, ExpiredKeys(st, t))

CleanupStats_staleEntries(st, sts, t) ==
    LET count == Cardinality(ExpiredKeys(st, t)) IN
    IF count > 0 THEN [sts EXCEPT !.evictions = @ + count] ELSE sts

CleanupStats(st, sts, t) ==
    LET count == Cardinality(ExpiredKeys(st, t)) IN
    IF count > 0 THEN [sts EXCEPT !.evictions = @ + count,
                                  !.entries = MapLen(CleanupStore(st, t))]
                 ELSE sts

Call(op, key, r) == [op |-> op, key |-> key, ret |-> r]

(***************************************************************************)
(* pool.rs: EndpointHealth, PooledConnection::mark_healthy / mark_unhealthy *)
(***************************************************************************)
EndpointHealthDefault ==
    [is_healthy |-> TRUE, last_success |-> None, last_failure |-> None,
     failure_count |-> 0, avg_response_time_ms |-> 0]

MarkHealthy(h, response_time_ms, t) ==
    [h EXCEPT !.is_healthy = TRUE,
              !.last_success = Some(t),
              !.failure_count = 0,
              !.avg_response_time_ms =
                  IF @ = 0 THEN response_time_ms
                           ELSE (@ * 9 + response_time_ms) \div 10]

MarkUnhealthy_neverFlips(h, t) ==
    [h EXCEPT !.last_failure = Some(t), !.failure_count = @ + 1]

\* the threshold mark_unhealthy compares failure_count with
UnhealthyThreshold == 3

MarkUnhealthy(h, t) ==
    LET h1 == [h EXCEPT !.last_failure = Some(t), !.failure_count = @ + 1] IN
    IF h1.failure_count >= UnhealthyThreshold THEN [h1 EXCEPT !.is_healthy = FALSE]
                                              ELSE h1

(***************************************************************************)
(* pool.rs: PoolConfig, ConnectionPool::with_config.  Each endpoint comes  *)
(* with the results of the successive EvmAdapter::connect calls made on it. *)
(***************************************************************************)
PoolConfigs ==
    {[max_failures |-> 2, unhealthy_retry_delay_secs |-> 0],
     [max_failures |-> 3, unhealthy_retry_delay_secs |-> 1]}

EndpointLists == {<< >>, <<"A">>, <<"A", "B">>}

ConnectResults == {<<"ok">>, <<"err", "ok">>, <<"err", "err">>}

RECURSIVE WithConfigLoop(_, _, _)
WithConfigLoop(cs, i, conns) ==
    IF i > Len(cs) THEN [result |-> "Ok", connections |-> conns]
    ELSE IF cs[i][1] = "ok"
         THEN WithConfigLoop(cs, i + 1, Append(conns, EndpointHealthDefault))
    ELSE IF cs[i][2] = "ok"
         THEN WithConfigLoop(cs, i + 1,
                  Append(conns, [EndpointHealthDefault EXCEPT !.is_healthy = FALSE,
                                                              !.failure_count = 1]))
    ELSE [result |-> "Err", connections |-> << >>]

WithConfig(cs) ==
    IF Len(cs) = 0 THEN [result |-> "Err", connections |-> << >>]
                   ELSE WithConfigLoop(cs, 1, << >>)

(***************************************************************************)
(* pool.rs: ConnectionPool::get_connection.  Positions are 0-based as in   *)
(* the source; connections[index] is conns[index + 1] here.                *)
(***************************************************************************)
TicksPerSec == 2
as_secs(d) == d \div TicksPerSec

CooledDown(h, cfg, t) ==
    \E last_failure \in h.last_failure :
        as_secs(t - last_failure) > cfg.unhealthy_retry_delay_secs

RECURSIVE GetConnectionLoop(_, _, _, _, _)
GetConnectionLoop(conns, cfg, idx, attempts, t) ==
    LET total == Len(conns)
        index == idx % total
    IN  IF attempts < total
        THEN IF conns[index + 1].is_healthy \/ CooledDown(conns[index + 1], cfg, t)
             THEN [conn |-> index, next_index |-> idx + 1, probes |-> attempts + 1,
                   branch |-> IF conns[index + 1].is_healthy THEN "healthy" ELSE "retry"]
             ELSE GetConnectionLoop(conns, cfg, idx + 1, attempts + 1, t)
        ELSE [conn |-> 0, next_index |-> idx, probes |-> attempts, branch |-> "fallback"]

GetConnectionReturn_staysOnHit(conns, cfg, idx, t) ==
    LET r == GetConnectionLoop(conns, cfg, idx, 0, t) IN
    [result |-> "Ok", conn |-> {r.conn},
     next_index |-> IF r.branch = "healthy" THEN r.next_index - 1 ELSE r.next_index,
     probes |-> r.probes, branch |-> r.branch]

GetConnectionReturn_errWhenAllDown(conns, cfg, idx, t) ==
    LET r == GetConnectionLoop(conns, cfg, idx, 0, t) IN
    IF r.branch = "fallback"
    THEN [result |-> "Err", conn |-> {}, next_index |-> r.next_index,
          probes |-> r.probes, branch |-> "fallback"]
    ELSE [result |-> "Ok", conn |-> {r.conn}, next_index |-> r.next_index,
          probes |-> r.probes, branch |-> r.branch]

\* the whole call: Err for an empty connection list, else the loop's choice
GetConnectionReturn(conns, cfg, idx, t) ==
    IF Len(conns) = 0
    THEN [result |-> "Err", conn |-> {}, next_index |-> idx, probes |-> 0, branch |-> "empty"]
    ELSE LET r == GetConnectionLoop(conns, cfg, idx, 0, t) IN
         [result |-> "Ok", conn |-> {r.conn}, next_index |-> r.next_index,
          probes |-> r.probes, branch |-> r.branch]

(***************************************************************************)
(* pool.rs: ConnectionPool::run_health_checks.  results[i] is what the     *)
(* liveness probe of connection i returns and how long it took.            *)
(***************************************************************************)
Latencies == {5}
ProbeResults ==
    {[ok |-> TRUE, ms |-> l] : l \in Latencies} \cup {[ok |-> FALSE, ms |-> 0]}

RunHealthChecksResult_abortsOnFailure(conns, results, t) ==
    [i \in 1..Len(conns) |->
        IF \E j \in 1..(i - 1) : ~results[j].ok THEN conns[i]
        ELSE IF results[i].ok THEN MarkHealthy(conns[i], results[i].ms, t)
                              ELSE MarkUnhealthy(conns[i], t)]

RunHealthChecksResult(conns, results, t) ==
    [i \in 1..Len(conns) |->
        IF results[i].ok THEN MarkHealthy(conns[i], results[i].ms, t)
                         ELSE MarkUnhealthy(conns[i], t)]

\* what run_health_checks returns, and what becomes of the task spawned by
\* start_health_checker after a round that returned r: it logs an Err and
\* loops
RunHealthChecksReturn(conns, results) == "Ok"

CheckerAfterRound(r) == "on"

(***************************************************************************)
(* The record of the last pool call, and the state with no pool built.     *)
(***************************************************************************)
NoConn == {}
PoolCall(op, conn, probes, marked) ==
    [op |-> op, conn |-> conn, probes |-> probes, marked_healthy |-> marked,
     result |-> "Ok", branch |-> "-"]

NoPool ==
    /\ pool_result = "Err"
    /\ endpoints = << >>
    /\ connects = << >>
    /\ config = [max_failures |-> 3, unhealthy_retry_delay_secs |-> 1]
    /\ connections = << >>
    /\ next_index = 0
    /\ plast = PoolCall("none", NoConn, 0, {})
    /\ served = << >>
    /\ checker = "off"


(***************************************************************************)
(* error.rs: Error.  An error is its kind and its message; of a message    *)
(* only the words is_retryable looks for are kept.                         *)
(***************************************************************************)
ErrorKinds ==
    {"Config", "Connection", "Transaction", "UnsupportedChain", "InvalidAddress",
     "Substrate", "Evm", "Serialization", "Other"}

Messages == {{}, {"timeout"}, {"temporary"}, {"unavailable"}}

Errors == [kind : ErrorKinds, msg : Messages]

\* str::contains
Contains(msg, word) == word \in msg

(***************************************************************************)
(* error_recovery.rs: is_retryable                                         *)
(***************************************************************************)
is_retryable_byKindOnly(error) == error.kind \in {"Connection", "Transaction", "Other"}

is_retryable(error) ==
    CASE error.kind = "Connection" -> TRUE
      [] error.kind = "Transaction" ->
            \/ Contains(error.msg, "timeout")
            \/ Contains(error.msg, "network")
            \/ Contains(error.msg, "connection")
            \/ Contains(error.msg, "unavailable")
      [] error.kind = "Substrate" -> FALSE
      [] error.kind = "Evm" -> FALSE
      [] error.kind = "Config" -> FALSE
      [] error.kind = "UnsupportedChain" -> FALSE
      [] error.kind = "InvalidAddress" -> FALSE
      [] error.kind = "Serialization" -> FALSE
      [] error.kind = "Other" ->
            Contains(error.msg, "temporary") \/ Contains(error.msg, "timeout")

(***************************************************************************)
(* error_recovery.rs: RetryConfig, with_retry.  Durations are in ms; the   *)
(* f64 multiplier is in hundredths (0.5, 1.5 and 2.0, which f64 holds      *)
(* exactly); rand::random::<f64>() is a percentage.                        *)
(***************************************************************************)
InitialBackoffs == {25, 100, 800}
Multipliers == {50, 150, 200}

RetryConfigs ==
    [max_retries : 0..MaxRetries, initial_backoff : InitialBackoffs, max_backoff : {300},
     multiplier : Multipliers, use_jitter : BOOLEAN]

RandomSamples == {0, 50, 99}

\* what one invocation of the operation returns
Ok(v) == [ok |-> TRUE, value |-> v]
Err(e) == [ok |-> FALSE, error |-> e]

OperationErrors ==
    {e \in Errors : \/ e.msg = {}
                    \/ e.kind \in {"Transaction", "Other"}}

Outcomes == {Ok(v) : v \in {41, 42}} \cup {Err(e) : e \in OperationErrors}

Min(a, b) == IF a <= b THEN a ELSE b

\* if !is_retryable(&error) || attempt >= config.max_retries { return Err(error) }
RetryGivesUp_oneEarly(cfg, att, error) == ~is_retryable(error) \/ att + 1 >= cfg.max_retries

RetryGivesUp(cfg, att, error) == ~is_retryable(error) \/ att >= cfg.max_retries

\* return Ok(result) / return Err(error)
RetryReturn_earlierError(earlier, outcome) ==
    IF outcome.ok \/ earlier = {} THEN outcome ELSE CHOOSE o \in earlier : TRUE

\* earlier: what the invocation before this one returned, if there was one
RetryReturn(earlier, outcome) == outcome

\* the delay slept before the next attempt: jittered by 1 + (r * 0.3 - 0.15)
\* when use_jitter, and never more than max_backoff
RetryDelayMs(cfg, b, r) ==
    Min(IF cfg.use_jitter THEN (b * (8500 + 30 * r)) \div 10000 ELSE b, cfg.max_backoff)

\* Duration::from_millis((backoff.as_millis() as f64 * multiplier) as u64)
\*     .min(max_backoff): the product is cut to whole ms, then capped
NextBackoff_uncapped(cfg, b) == (b * cfg.multiplier) \div 100

NextBackoff(cfg, b) == Min((b * cfg.multiplier) \div 100, cfg.max_backoff)

RetryLogNew == [calls |-> 0, failed |-> 0, sleeps |-> 0, delay |-> 0]

\* no with_retry call
NoRetry ==
    /\ rcfg = [max_retries |-> 0, initial_backoff |-> 100, max_backoff |-> 300,
               multiplier |-> 200, use_jitter |-> FALSE]
    /\ rpc = "done"
    /\ attempt = 0
    /\ backoff = 0
    /\ rlog = RetryLogNew
    /\ rprev = {}
    /\ rlast = {}
    /\ rresult = {}

\* with_retry(config, operation) entered: attempt = 0, backoff = initial_backoff
RetryEntered ==
    /\ rcfg \in RetryConfigs
    /\ rpc = "call"
    /\ attempt = 0
    /\ backoff = rcfg.initial_backoff
    /\ rlog = RetryLogNew
    /\ rprev = {}
    /\ rlast = {}
    /\ rresult = {}

(***************************************************************************)
(* error_recovery.rs: CircuitBreaker.  Its timeout is a number of clock    *)
(* ticks.                                                                  *)
(***************************************************************************)
CircuitStates == {"Closed", "Open", "HalfOpen"}
SuccessThreshold == 2
BreakerTimeouts == {0, 1}

CircuitBreakerNew(failure_threshold, timeout) ==
    [failure_threshold |-> failure_threshold,
     success_threshold |-> SuccessThreshold,
     timeout |-> timeout,
     state |-> "Closed",
     failure_count |-> 0,
     success_count |-> 0,
     last_failure_time |-> None]

on_success_closesAtOnce(b) ==
    LET b1 == [b EXCEPT !.failure_count = 0] IN
    IF b1.state = "HalfOpen"
    THEN [b1 EXCEPT !.success_count = @ + 1, !.state = "Closed"]
    ELSE b1

on_success(b) ==
    LET b1 == [b EXCEPT !.failure_count = 0] IN
    IF b1.state = "HalfOpen"
    THEN LET b2 == [b1 EXCEPT !.success_count = @ + 1] IN
         IF b2.success_count >= b2.success_threshold
         THEN [b2 EXCEPT !.state = "Closed"] ELSE b2
    ELSE b1

on_failure_opensLate(b, t) ==
    LET b1 == [b EXCEPT !.failure_count = @ + 1, !.last_failure_time = Some(t)] IN
    IF b1.failure_count > b1.failure_threshold
    THEN [b1 EXCEPT !.state = "Open"] ELSE b1

on_failure_reopensFromHalfOpen(b, t) ==
    LET b1 == [b EXCEPT !.failure_count = @ + 1, !.last_failure_time = Some(t)] IN
    IF b1.failure_count >= b1.failure_threshold \/ b.state = "HalfOpen"
    THEN [b1 EXCEPT !.state = "Open"] ELSE b1

on_failure(b, t) ==
    LET b1 == [b EXCEPT !.failure_count = @ + 1, !.last_failure_time = Some(t)] IN
    IF b1.failure_count >= b1.failure_threshold
    THEN [b1 EXCEPT !.state = "Open"] ELSE b1

is_open(b) == b.state = "Open"

\* Err(Error::Connection("Circuit breaker is open".to_string()))
CircuitOpenError == [kind |-> "Connection", msg |-> {"Circuit breaker is open"}]

\* what call does before it invokes the operation: the breaker it leaves and
\* whether it goes on to invoke the operation (run) or returns CircuitOpenError
CallGate_runsWhileOpen(b, t) ==
    IF b.state = "Open" /\ b.last_failure_time # None
    THEN LET last_failure == CHOOSE x \in b.last_failure_time : TRUE IN
         IF t - last_failure > b.timeout
         THEN [breaker |-> [b EXCEPT !.state = "HalfOpen", !.success_count = 0],
               run |-> TRUE]
         ELSE [breaker |-> b, run |-> TRUE]
    ELSE [breaker |-> b, run |-> TRUE]

CallGate_staysOpen(b, t) ==
    IF b.state = "Open" /\ b.last_failure_time # None
    THEN LET last_failure == CHOOSE x \in b.last_failure_time : TRUE IN
         IF t - last_failure > b.timeout
         THEN [breaker |-> [b EXCEPT !.success_count = 0], run |-> TRUE]
         ELSE [breaker |-> b, run |-> FALSE]
    ELSE [breaker |-> b, run |-> TRUE]

CallGate_keepsSuccessCount(b, t) ==
    IF b.state = "Open" /\ b.last_failure_time # None
    THEN LET last_failure == CHOOSE x \in b.last_failure_time : TRUE IN
         IF t - last_failure > b.timeout
         THEN [breaker |-> [b EXCEPT !.state = "HalfOpen"], run |-> TRUE]
         ELSE [breaker |-> b, run |-> FALSE]
    ELSE [breaker |-> b, run |-> TRUE]

CallGate(b, t) ==
    IF b.state = "Open" /\ b.last_failure_time # None
    THEN LET last_failure == CHOOSE x \in b.last_failure_time : TRUE IN
         IF t - last_failure > b.timeout
         THEN [breaker |-> [b EXCEPT !.state = "HalfOpen", !.success_count = 0],
               run |-> TRUE]
         ELSE [breaker |-> b, run |-> FALSE]
    ELSE [breaker |-> b, run |-> TRUE]

\* what the wrapped operation can return: any Result<T, Error>
BreakerErrors ==
    {[kind |-> "Connection", msg |-> {}], [kind |-> "Transaction", msg |-> {"timeout"}],
     CircuitOpenError}

BreakerOutcomes == {Ok(42)} \cup {Err(e) : e \in BreakerErrors}

BreakerCallRecord(pre, ran, ret) == [op |-> "call", pre |-> pre, ran |-> ran, ret |-> ret]

\* no circuit breaker in use
NoBreaker ==
    /\ breaker = CircuitBreakerNew(1, 0)
    /\ bpc = "idle"
    /\ blast = [op |-> "none", pre |-> CircuitBreakerNew(1, 0), ran |-> FALSE, ret |-> {}]
    /\ bexec = {}
    /\ bstreak = -1

\* CircuitBreaker::new(failure_threshold, timeout)
BreakerNew ==
    /\ \E failure_threshold \in 0..MaxThreshold, timeout \in BreakerTimeouts :
         /\ breaker = CircuitBreakerNew(failure_threshold, timeout)
         /\ blast = [op |-> "none", pre |-> breaker, ran |-> FALSE, ret |-> {}]
    /\ bpc = "idle"
    /\ bexec = {}
    /\ bstreak = -1

(***************************************************************************)
(* cache.rs: EvmCache::start_cleanup_task.  The facade is shared through   *)
(* Arc<EvmCache>; the spawned task owns one clone of it.                   *)
(***************************************************************************)
\* no facade shared with a cleanup task
NoCleanup ==
    /\ owner = "held"
    /\ cleaner = "off"
    /\ strong = 1

\* Arc::new(EvmCache::with_config(..)): one handle, held by the owner
FacadeNew ==
    /\ owner = "held"
    /\ cleaner = "off"
    /\ strong = 1

\* what dropping the owner's handle makes of the spawned task: the task owns
\* its clone and its JoinHandle was discarded, so it goes on as it was
CleanerAfterDrop(c) == c

(***************************************************************************)
(* pool.rs: ConnectionPool::run_health_checks, step by step.               *)
(***************************************************************************)
NoProbe ==
    /\ hpc = "idle"
    /\ hidx = 0
    /\ hheld = {}

(***************************************************************************)
(* performance.rs: RateLimiter.  Its window is a number of clock ticks.    *)
(***************************************************************************)
MaxRequests == 2
LimMaxTime == 3
MaxAcquires == 4
LimWindows == {0, 1, 2}
LimTasks == {"t1", "t2", "t3"}

RateLimiterNew(max_requests, window) == [max_requests |-> max_requests, window |-> window]

\* requests.retain(|&req_time| now.duration_since(req_time) < self.window)
Retain(reqs, t, window) == SelectSeq(reqs, LAMBDA req_time : t - req_time < window)

\* if requests.len() < self.max_requests as usize
AcquireAdmits_oneOver(reqs, max_requests) == Len(reqs) <= max_requests

AcquireAdmits(reqs, max_requests) == Len(reqs) < max_requests

\* the wait computed from requests.first(): none when the list is empty or its
\* oldest entry is a window old
WaitTime(reqs, t, window) ==
    IF reqs # << >> /\ t - Head(reqs) < window
    THEN Some(window - (t - Head(reqs)))
    ELSE None

NoLimiter ==
    /\ limiter = RateLimiterNew(0, 0)
    /\ requests = << >>
    /\ apc = [t \in LimTasks |-> "idle"]
    /\ wake_at = [t \in LimTasks |-> 0]
    /\ granted = << >>

\* RateLimiter::new(max_requests, window), cloned into every task
LimiterNew ==
    /\ \E max_requests \in 0..MaxRequests, window \in LimWindows :
         limiter = RateLimiterNew(max_requests, window)
    /\ requests = << >>
    /\ apc = [t \in LimTasks |-> "idle"]
    /\ wake_at = [t \in LimTasks |-> 0]
    /\ granted = << >>

\* no latency sample recorded
NoSamples == samples = << >>

(***************************************************************************)
(* cache.rs: CacheConfig and the three tiers of EvmCache.  Each tier is a  *)
(* Cache of its own; TTLs are configured in seconds.                       *)
(***************************************************************************)
CacheConfigs ==
    [balance_ttl_secs : {0, 1}, transaction_status_ttl_secs : {1}, block_data_ttl_secs : {0},
     max_cache_size : {1, 10}]

\* Duration::from_secs, in ticks of the clock
from_secs(secs) == secs * TicksPerSec

\* the ttl each setter computes from self.config
TierTtl_balanceForAll(cfg, tier) == from_secs(cfg.balance_ttl_secs)

TierTtl(cfg, tier) ==
    CASE tier = "balance" -> from_secs(cfg.balance_ttl_secs)
      [] tier = "tx_status" -> from_secs(cfg.transaction_status_ttl_secs)
      [] tier = "block" -> from_secs(cfg.block_data_ttl_secs)

\* the keys used with each tier: addresses, transaction hashes, block numbers
TierKeys(tier) ==
    CASE tier = "balance" -> {"0xA", "0xB"}
      [] tier = "tx_status" -> {"0xT"}
      [] tier = "block" -> {1, 2}

\* EvmCache::with_config(config)
EvmCacheNew(cfg) ==
    [tier \in Tiers |-> [max_size |-> TierCapacity(tier, cfg.max_cache_size),
                         store |-> << >>,
                         stats |-> CacheStatsDefault]]

EvmCall(op, tier, key, r) == [op |-> op, tier |-> tier, key |-> key, ret |-> r]

\* no EvmCache in use
NoEvm ==
    /\ ecfg = [balance_ttl_secs |-> 0, transaction_status_ttl_secs |-> 0,
               block_data_ttl_secs |-> 0, max_cache_size |-> 0]
    /\ tiers = EvmCacheNew(ecfg)
    /\ elast = EvmCall("none", "balance", NoKey, None)

(***************************************************************************)
(* The locks of one Cache (store, stats) and of one pool of two            *)
(* connections (the connection list, each connection's health), and the    *)
(* order in which each call takes and drops them.  A guard not dropped     *)
(* earlier is dropped when the call returns.                               *)
(***************************************************************************)
LockNames == {"store", "stats", "list", "health0", "health1"}
HealthLocks == {"health0", "health1"}
LockTasks == {"t1", "t2"}
CacheOps == {"get", "set", "remove", "clear", "cleanup_expired", "stats"}
PoolOps == {"get_connection", "health_status", "run_health_checks", "mark_healthy",
            "mark_unhealthy"}

Acq(lock, mode) == [act |-> "acquire", lock |-> lock, mode |-> mode]
Rel(lock) == [act |-> "release", lock |-> lock, mode |-> "none"]

\* a guard taken and dropped again before the next step
Visit(lock, mode) == <<Acq(lock, mode), Rel(lock)>>

CacheLocks_statsFirst(op) ==
    CASE op = "get" -> <<Acq("stats", "write"), Acq("store", "read")>>
      [] op = "stats" -> <<Acq("stats", "read")>>
      [] OTHER -> <<Acq("store", "write"), Acq("stats", "write")>>

CacheLocks(op) ==
    CASE op = "get" -> <<Acq("store", "read"), Acq("stats", "write")>>
      [] op = "stats" -> <<Acq("stats", "read")>>
      [] OTHER -> <<Acq("store", "write"), Acq("stats", "write")>>

\* get_connection probes one connection or both, starting where the cursor
\* points; the other calls go through the connections in order
PoolLocks(op) ==
    CASE op = "get_connection" ->
            {<<Acq("list", "read")>> \o probes :
                probes \in {Visit("health0", "read"), Visit("health1", "read"),
                            Visit("health0", "read") \o Visit("health1", "read"),
                            Visit("health1", "read") \o Visit("health0", "read")}}
      [] op = "health_status" ->
            {<<Acq("list", "read")>> \o Visit("health0", "read") \o Visit("health1", "read")}
      [] op = "run_health_checks" ->
            {<<Acq("list", "read")>> \o Visit("health0", "write") \o Visit("health1", "write")}
      [] OTHER -> {<<Acq(h, "write")>> : h \in HealthLocks}

LockPrograms(op) == IF op \in CacheOps THEN {CacheLocks(op)} ELSE PoolLocks(op)

\* no call in progress, every lock free
NoLocks ==
    /\ lprog = [t \in LockTasks |-> << >>]
    /\ lpos = [t \in LockTasks |-> 0]
    /\ lheld = [l \in LockNames |-> [readers |-> {}, writers |-> {}]]
    /\ lqueue = [l \in LockNames |-> << >>]

MoreIdle == NoSamples /\ NoEvm /\ NoLocks

RestIdle == NoBreaker /\ NoCleanup /\ NoProbe /\ NoLimiter /\ MoreIdle

(***************************************************************************)
(* The caller's own record of its most recent set on WatchedKey: what it   *)
(* stored and when, whether it has since removed or cleared it itself      *)
(* (kept), and whether the cache has dropped it (evicted).                 *)
(***************************************************************************)
HistSet(h, key, value, ttl, t, gone) ==
    IF key = WatchedKey
    THEN {[value |-> value, at |-> t, ttl |-> ttl, kept |-> TRUE, evicted |-> FALSE]}
    ELSE IF WatchedKey \in gone THEN {[e EXCEPT !.evicted = TRUE] : e \in h}
    ELSE h

HistDrop(h, ks) ==
    IF WatchedKey \in ks THEN {[e EXCEPT !.kept = FALSE] : e \in h} ELSE h

HistEvict(h, ks) ==
    IF WatchedKey \in ks THEN {[e EXCEPT !.evicted = TRUE] : e \in h} ELSE h

(***************************************************************************)
(* Sequential cache: each call runs to completion.                         *)
(***************************************************************************)
CacheNew ==
    /\ now = 0
    /\ \E tier \in Tiers, c \in 0..MaxCacheSize : max_size = TierCapacity(tier, c)
    /\ store = << >>
    /\ stats = CacheStatsDefault
    /\ last = Call("new", NoKey, None)
    /\ hist = {}

Tasks == {"t1", "t2"}
NoCall == [op |-> "none", key |-> NoKey, value |-> "a", ttl |-> 0]
NoSnap == [store |-> << >>, stats |-> CacheStatsDefault]
Unlocked == [readers |-> {}, writers |-> {}]

TasksIdle ==
    /\ pc = [t \in Tasks |-> "idle"]
    /\ call = [t \in Tasks |-> NoCall]
    /\ snap = [t \in Tasks |-> NoSnap]
    /\ store_lock = Unlocked
    /\ stats_lock = Unlocked
    /\ invoked = [get |-> 0, set |-> 0, remove |-> 0, overlapped |-> FALSE]

\* no task is inside a get_connection call
SelTasks == {"t1", "t2", "t3"}

SelIdle ==
    /\ gpc = [t \in SelTasks |-> "idle"]
    /\ gattempts = [t \in SelTasks |-> 0]
    /\ gindex = [t \in SelTasks |-> 0]
    /\ gobserved = [t \in SelTasks |-> << >>]
    /\ gret = [t \in SelTasks |-> << >>]

InitCache == CacheNew /\ TasksIdle /\ SelIdle /\ NoPool /\ NoRetry /\ RestIdle

Tick ==
    /\ now < MaxTime
    /\ now' = now + 1
    /\ last' = Call("tick", NoKey, None)
    /\ UNCHANGED <<max_size, store, stats, hist, taskVars, poolVars, selVars, retryVars, restVars>>

Get_evictsExpired(key) ==
    /\ stats.hits + stats.misses < MaxGets
    /\ stats' = GetStats(store, stats, key, now)
    /\ store' = IF key \in ExpiredKeys(store, now) THEN MapRemoveAll(store, {key})
                                                    ELSE store
    /\ last' = Call("get", key, GetReturn(store, key, now))
    /\ UNCHANGED <<now, max_size, hist, taskVars, poolVars, selVars, retryVars, restVars>>

Get(key) ==
    /\ stats.hits + stats.misses < MaxGets
    /\ stats' = GetStats(store, stats, key, now)
    /\ last' = Call("get", key, GetReturn(store, key, now))
    /\ UNCHANGED <<now, max_size, store, hist, taskVars, poolVars, selVars, retryVars, restVars>>

Set(key, value, ttl) ==
    /\ stats.sets < MaxSets
    /\ \E out \in SetOutcomes(store, stats, key, value, ttl, max_size, now) :
         LET gone == (DOMAIN store) \ (DOMAIN out.store) IN
         /\ store' = out.store
         /\ stats' = out.stats
         /\ last' = Call("set", key, None)
         /\ hist' = HistSet(hist, key, value, ttl, now, gone)
    /\ UNCHANGED <<now, max_size, taskVars, poolVars, selVars, retryVars, restVars>>

Remove(key) ==
    /\ store' = RemoveStore(store, key)
    /\ stats' = RemoveStats(store, stats, key)
    /\ last' = Call("remove", key, RemoveReturn(store, key))
    /\ hist' = HistDrop(hist, {key})
    /\ UNCHANGED <<now, max_size, taskVars, poolVars, selVars, retryVars, restVars>>

Clear ==
    /\ store' = ClearStore(store)
    /\ stats' = ClearStats(stats)
    /\ last' = Call("clear", NoKey, None)
    /\ hist' = HistDrop(hist, Keys)
    /\ UNCHANGED <<now, max_size, taskVars, poolVars, selVars, retryVars, restVars>>

CleanupExpired ==
    /\ store' = CleanupStore(store, now)
    /\ stats' = CleanupStats(store, stats, now)
    /\ last' = Call("cleanup_expired", NoKey, None)
    /\ hist' = HistEvict(hist, ExpiredKeys(store, now))
    /\ UNCHANGED <<now, max_size, taskVars, poolVars, selVars, retryVars, restVars>>

NextCache ==
    \/ Tick
    \/ \E key \in Keys : Get(key)
    \/ \E key \in Keys : \E value \in ValuesFor(key), ttl \in Ttls : Set(key, value, ttl)
    \/ \E key \in Keys : Remove(key)
    \/ Clear
    \/ CleanupExpired

SpecCache == InitCache /\ [][NextCache]_vars

(***************************************************************************)
(* Concurrent cache: tasks call get, set and remove on one Cache.  A call  *)
(* takes the store lock (read for get, write for set and remove), then the *)
(* stats write lock, runs its body on what it reads under the locks and    *)
(* writes the results back, and drops both guards when it returns.         *)
(***************************************************************************)
TaskCalls ==
    {[op |-> "get", key |-> k, value |-> "a", ttl |-> 0] : k \in Keys}
    \cup {[op |-> "set", key |-> k, value |-> "a", ttl |-> 2] : k \in Keys}
    \cup {[op |-> "remove", key |-> k, value |-> "a", ttl |-> 0] : k \in Keys}

\* tokio::sync::RwLock: read() is granted while no writer holds the lock,
\* write() while nobody holds it
CanRead(lock) == lock.writers = {}

CanWrite_noExclusion(lock) == TRUE

CanWrite(lock) == lock.writers = {} /\ lock.readers = {}

Release(lock, t) == [readers |-> lock.readers \ {t}, writers |-> lock.writers \ {t}]

Invoke(t, c) ==
    /\ pc[t] = "idle"
    /\ invoked.get + invoked.set + invoked.remove < MaxCalls
    /\ pc' = [pc EXCEPT ![t] = "lock_store"]
    /\ call' = [call EXCEPT ![t] = c]
    /\ invoked' = [invoked EXCEPT ![c.op] = @ + 1,
                                  !.overlapped = @ \/ \E u \in Tasks \ {t} : pc[u] # "idle"]
    /\ UNCHANGED <<now, cacheVars, snap, store_lock, stats_lock, poolVars, selVars, retryVars, restVars>>

\* let store = self.store.read().await   /   self.store.write().await
LockStore(t) ==
    /\ pc[t] = "lock_store"
    /\ IF call[t].op = "get"
       THEN /\ CanRead(store_lock)
            /\ store_lock' = [store_lock EXCEPT !.readers = @ \cup {t}]
       ELSE /\ CanWrite(store_lock)
            /\ store_lock' = [store_lock EXCEPT !.writers = @ \cup {t}]
    /\ pc' = [pc EXCEPT ![t] = "lock_stats"]
    /\ UNCHANGED <<now, cacheVars, call, snap, stats_lock, invoked, poolVars, selVars, retryVars, restVars>>

\* let mut stats = self.stats.write().await, and the reads of the body
LockStats(t) ==
    /\ pc[t] = "lock_stats"
    /\ CanWrite(stats_lock)
    /\ stats_lock' = [stats_lock EXCEPT !.writers = @ \cup {t}]
    /\ snap' = [snap EXCEPT ![t] = [store |-> store, stats |-> stats]]
    /\ pc' = [pc EXCEPT ![t] = "body"]
    /\ UNCHANGED <<now, cacheVars, call, store_lock, invoked, poolVars, selVars, retryVars, restVars>>

\* the writes of the body, and the return (both guards dropped)
Body(t) ==
    /\ pc[t] = "body"
    /\ LET c == call[t]
           s == snap[t]
       IN  CASE c.op = "get" ->
                  /\ stats' = GetStats(s.store, s.stats, c.key, now)
                  /\ store' = store
             [] c.op = "set" ->
                  \E out \in SetOutcomes(s.store, s.stats, c.key, c.value, c.ttl,
                                          max_size, now) :
                     /\ store' = out.store
                     /\ stats' = out.stats
             [] OTHER ->
                  /\ store' = RemoveStore(s.store, c.key)
                  /\ stats' = RemoveStats(s.store, s.stats, c.key)
    /\ store_lock' = Release(store_lock, t)
    /\ stats_lock' = Release(stats_lock, t)
    /\ pc' = [pc EXCEPT ![t] = "idle"]
    /\ call' = [call EXCEPT ![t] = NoCall]
    /\ snap' = [snap EXCEPT ![t] = NoSnap]
    /\ UNCHANGED <<now, max_size, last, hist, invoked, poolVars, selVars, retryVars, restVars>>

NextTasks ==
    \/ \E t \in Tasks, c \in TaskCalls : Invoke(t, c)
    \/ \E t \in Tasks : LockStore(t)
    \/ \E t \in Tasks : LockStats(t)
    \/ \E t \in Tasks : Body(t)

SpecTasks == InitCache /\ [][NextTasks]_vars

(***************************************************************************)
(* The pool after with_config, and the calls made on it.                   *)
(***************************************************************************)
PoolNewFrom(lists) ==
    /\ endpoints \in lists
    /\ connects \in [1..Len(endpoints) -> ConnectResults]
    /\ config \in PoolConfigs
    /\ pool_result = WithConfig(connects).result
    /\ connections = WithConfig(connects).connections
    /\ next_index = 0
    /\ plast = PoolCall("with_config", NoConn, 0, {})
    /\ served = << >>
    /\ checker = "off"

PoolNew == PoolNewFrom(EndpointLists)

InitPool ==
    CacheNew /\ max_size = 0 /\ TasksIdle /\ SelIdle /\ PoolNew /\ NoRetry /\ RestIdle

poolFixed == <<cacheVars, taskVars, selVars, retryVars, restVars, pool_result, endpoints, connects,
               config>>

PoolTick ==
    /\ pool_result = "Ok"
    /\ now < PoolMaxTime
    /\ now' = now + 1
    /\ plast' = PoolCall("tick", NoConn, 0, {})
    /\ served' = << >>
    /\ UNCHANGED <<poolFixed, connections, next_index, checker>>

MarkHealthyCall(i, response_time_ms) ==
    /\ pool_result = "Ok"
    /\ connections' = [connections EXCEPT ![i + 1] = MarkHealthy(@, response_time_ms, now)]
    /\ plast' = PoolCall("mark_healthy", {i}, 0, {i})
    /\ served' = << >>
    /\ UNCHANGED <<now, poolFixed, next_index, checker>>

MarkUnhealthyCall(i) ==
    /\ pool_result = "Ok"
    /\ connections[i + 1].failure_count < MaxFailureCount
    /\ connections' = [connections EXCEPT ![i + 1] = MarkUnhealthy(@, now)]
    /\ plast' = PoolCall("mark_unhealthy", {i}, 0, {})
    /\ served' = << >>
    /\ UNCHANGED <<now, poolFixed, next_index, checker>>

GetConnection_healsRetried ==
    /\ pool_result = "Ok"
    /\ next_index + Len(connections) <= MaxNextIndex
    /\ LET r == GetConnectionReturn(connections, config, next_index, now) IN
         /\ next_index' = r.next_index
         /\ plast' = [PoolCall("get_connection", r.conn, r.probes, {})
                         EXCEPT !.result = r.result, !.branch = r.branch]
         /\ served' = IF r.result = "Ok" THEN Append(served, CHOOSE c \in r.conn : TRUE)
                                         ELSE served
         /\ connections' =
               IF r.branch = "retry"
               THEN [connections EXCEPT ![(CHOOSE c \in r.conn : TRUE) + 1].is_healthy = TRUE]
               ELSE connections
    /\ UNCHANGED <<now, poolFixed, checker>>

GetConnection_stampsFallback ==
    /\ pool_result = "Ok"
    /\ next_index + Len(connections) <= MaxNextIndex
    /\ LET r == GetConnectionReturn(connections, config, next_index, now) IN
         /\ next_index' = r.next_index
         /\ plast' = [PoolCall("get_connection", r.conn, r.probes, {})
                         EXCEPT !.result = r.result, !.branch = r.branch]
         /\ served' = IF r.result = "Ok" THEN Append(served, CHOOSE c \in r.conn : TRUE)
                                         ELSE served
         /\ connections' =
               IF r.branch = "fallback"
               THEN [connections EXCEPT ![1].last_failure = Some(now)]
               ELSE connections
    /\ UNCHANGED <<now, poolFixed, checker>>

GetConnection ==
    /\ pool_result = "Ok"
    /\ next_index + Len(connections) <= MaxNextIndex
    /\ LET r == GetConnectionReturn(connections, config, next_index, now) IN
         /\ next_index' = r.next_index
         /\ plast' = [PoolCall("get_connection", r.conn, r.probes, {})
                         EXCEPT !.result = r.result, !.branch = r.branch]
         /\ served' = IF r.result = "Ok" THEN Append(served, CHOOSE c \in r.conn : TRUE)
                                         ELSE served
    /\ UNCHANGED <<now, poolFixed, connections, checker>>

HealthStatus ==
    /\ pool_result = "Ok"
    /\ plast' = PoolCall("health_status", NoConn, 0, {})
    /\ served' = << >>
    /\ UNCHANGED <<now, poolFixed, connections, next_index, checker>>

RunHealthChecks(results) ==
    /\ pool_result = "Ok"
    /\ \A i \in 1..Len(connections) :
          results[i].ok \/ connections[i].failure_count < MaxFailureCount
    /\ connections' = RunHealthChecksResult(connections, results, now)
    /\ plast' = [PoolCall("run_health_checks", NoConn, Len(connections),
                          {i - 1 : i \in {j \in 1..Len(connections) : results[j].ok}})
                    EXCEPT !.result = RunHealthChecksReturn(connections, results)]
    /\ served' = << >>
    /\ UNCHANGED <<now, poolFixed, next_index, checker>>

NextPool ==
    \/ PoolTick
    \/ \E i \in 0..(Len(connections) - 1), ms \in Latencies : MarkHealthyCall(i, ms)
    \/ \E i \in 0..(Len(connections) - 1) : MarkUnhealthyCall(i)
    \/ GetConnection
    \/ HealthStatus
    \/ \E results \in [1..Len(connections) -> ProbeResults] : RunHealthChecks(results)

SpecPool == InitPool /\ [][NextPool]_vars

(***************************************************************************)
(* The pool with its background health checker: a pool of two endpoints    *)
(* whose health is changed only by run_health_checks, called directly or   *)
(* by the task start_health_checker spawns.                                *)
(***************************************************************************)
InitHealth == InitPool /\ endpoints = <<"A", "B">>

StartHealthChecker ==
    /\ pool_result = "Ok"
    /\ checker = "off"
    /\ checker' = "on"
    /\ plast' = PoolCall("start_health_checker", NoConn, 0, {})
    /\ served' = << >>
    /\ UNCHANGED <<now, poolFixed, connections, next_index>>

\* one iteration of the spawned loop, after its sleep
HealthCheckerRound(results) ==
    /\ pool_result = "Ok"
    /\ checker = "on"
    /\ \A i \in 1..Len(connections) :
          results[i].ok \/ connections[i].failure_count < MaxFailureCount
    /\ connections' = RunHealthChecksResult(connections, results, now)
    /\ checker' = CheckerAfterRound(RunHealthChecksReturn(connections, results))
    /\ plast' = [PoolCall("run_health_checks", NoConn, Len(connections),
                          {i - 1 : i \in {j \in 1..Len(connections) : results[j].ok}})
                    EXCEPT !.result = RunHealthChecksReturn(connections, results),
                           !.branch = "round"]
    /\ served' = << >>
    /\ UNCHANGED <<now, poolFixed, next_index>>

NextHealth ==
    \/ PoolTick
    \/ StartHealthChecker
    \/ \E results \in [1..Len(connections) -> ProbeResults] : HealthCheckerRound(results)
    \/ \E results \in [1..Len(connections) -> ProbeResults] : RunHealthChecks(results)
    \/ GetConnection
    \/ HealthStatus

SpecHealth == InitHealth /\ [][NextHealth]_vars

(***************************************************************************)
(* Concurrent get_connection: tasks call get_connection on one pool.  Each *)
(* pass of the loop is a fetch_add on the cursor, then a read of the       *)
(* health of the connection it selects; other tasks run in between.        *)
(***************************************************************************)
SelEndpointLists == {<<"A">>, <<"A", "B">>}

InitSelect ==
    /\ CacheNew /\ max_size = 0 /\ TasksIdle /\ SelIdle /\ NoRetry /\ RestIdle
    /\ PoolNewFrom(SelEndpointLists)
    /\ pool_result = "Ok"
    /\ config.max_failures = 3

\* AtomicUsize::fetch_add(1): the value returned and the value stored
FetchAdd_noAdvance(cursor) == [observed |-> cursor, stored |-> cursor]

FetchAdd(cursor) == [observed |-> cursor, stored |-> cursor + 1]

selFixed == <<now, cacheVars, taskVars, retryVars, restVars, pool_result, endpoints, connects, config,
              connections, plast, served, checker>>

\* the get_connection calls started so far, over all tasks
CallsStarted ==
    Cardinality({c \in SelTasks \X (1..MaxSelCalls) : c[2] <= Len(gret[c[1]])})
    + Cardinality({t \in SelTasks : gpc[t] # "idle"})

GcInvoke(t) ==
    /\ pool_result = "Ok"
    /\ gpc[t] = "idle"
    /\ CallsStarted < MaxSelCalls
    /\ gpc' = [gpc EXCEPT ![t] = "loop"]
    /\ gattempts' = [gattempts EXCEPT ![t] = 0]
    /\ UNCHANGED <<selFixed, next_index, gindex, gobserved, gret>>

\* while attempts < total { let index = fetch_add(1) % total; ...
GcFetch(t) ==
    /\ gpc[t] = "loop"
    /\ gattempts[t] < Len(connections)
    /\ LET f == FetchAdd(next_index) IN
         /\ next_index' = f.stored
         /\ gobserved' = [gobserved EXCEPT ![t] = Append(@, f.observed)]
         /\ gindex' = [gindex EXCEPT ![t] = f.observed % Len(connections)]
    /\ gpc' = [gpc EXCEPT ![t] = "check"]
    /\ UNCHANGED <<selFixed, gattempts, gret>>

\* ... let health = conn.health.read().await; return it or attempts += 1 }
GcCheck(t) ==
    /\ gpc[t] = "check"
    /\ LET h == connections[gindex[t] + 1] IN
       IF h.is_healthy \/ CooledDown(h, config, now)
       THEN /\ gret' = [gret EXCEPT ![t] = Append(@, gindex[t])]
            /\ gpc' = [gpc EXCEPT ![t] = "idle"]
            /\ UNCHANGED gattempts
       ELSE /\ gattempts' = [gattempts EXCEPT ![t] = @ + 1]
            /\ gpc' = [gpc EXCEPT ![t] = "loop"]
            /\ UNCHANGED gret
    /\ UNCHANGED <<selFixed, next_index, gindex, gobserved>>

\* all probes used: return connections[0]
GcFallback(t) ==
    /\ gpc[t] = "loop"
    /\ gattempts[t] >= Len(connections)
    /\ gret' = [gret EXCEPT ![t] = Append(@, 0)]
    /\ gpc' = [gpc EXCEPT ![t] = "idle"]
    /\ UNCHANGED <<selFixed, next_index, gattempts, gindex, gobserved>>

NextSelect ==
    \/ \E t \in SelTasks : GcInvoke(t)
    \/ \E t \in SelTasks : GcFetch(t)
    \/ \E t \in SelTasks : GcCheck(t)
    \/ \E t \in SelTasks : GcFallback(t)

SpecSelect == InitSelect /\ [][NextSelect]_vars

(***************************************************************************)
(* with_retry: one call, from its entry to its return.                     *)
(***************************************************************************)
InitRetry ==
    CacheNew /\ max_size = 0 /\ TasksIdle /\ SelIdle /\ NoPool /\ RetryEntered /\ RestIdle

retryFixed == <<now, cacheVars, taskVars, poolVars, selVars, restVars, rcfg>>

\* operation().await returns outcome; r is the random number drawn if the
\* call goes on to sleep
RetryAttempt(outcome, r) ==
    /\ rpc = "call"
    /\ rprev' = rlast
    /\ rlast' = {outcome}
    /\ IF outcome.ok
       THEN /\ rresult' = {RetryReturn(rlast, outcome)}
            /\ rpc' = "done"
            /\ rlog' = [rlog EXCEPT !.calls = @ + 1]
            /\ UNCHANGED <<attempt, backoff>>
       ELSE IF RetryGivesUp(rcfg, attempt, outcome.error)
       THEN /\ rresult' = {RetryReturn(rlast, outcome)}
            /\ rpc' = "done"
            /\ rlog' = [rlog EXCEPT !.calls = @ + 1, !.failed = @ + 1]
            /\ UNCHANGED <<attempt, backoff>>
       ELSE /\ attempt' = attempt + 1
            /\ rlog' = [rlog EXCEPT !.calls = @ + 1, !.failed = @ + 1,
                                    !.sleeps = @ + 1,
                                    !.delay = RetryDelayMs(rcfg, backoff, r)]
            /\ rpc' = "sleep"
            /\ UNCHANGED <<backoff, rresult>>
    /\ UNCHANGED retryFixed

\* sleep(delay).await returns; backoff is multiplied for the next round
RetrySlept ==
    /\ rpc = "sleep"
    /\ backoff' = NextBackoff(rcfg, backoff)
    /\ rpc' = "call"
    /\ UNCHANGED <<retryFixed, attempt, rlog, rprev, rlast, rresult>>

NextRetry ==
    \/ \E outcome \in Outcomes, r \in RandomSamples : RetryAttempt(outcome, r)
    \/ RetrySlept

SpecRetry == InitRetry /\ [][NextRetry]_vars

\* the operation's future and the sleep both complete
SpecRetryFair == SpecRetry /\ WF_vars(NextRetry)

(***************************************************************************)
(* Calls through one CircuitBreaker.  call takes &mut self, so one call    *)
(* runs at a time; the clock advances between calls and while the wrapped  *)
(* operation is awaited.                                                   *)
(***************************************************************************)
InitBreaker ==
    /\ CacheNew /\ max_size = 0 /\ TasksIdle /\ SelIdle /\ NoPool /\ NoRetry
    /\ BreakerNew /\ NoCleanup /\ NoProbe /\ NoLimiter /\ MoreIdle

breakerFixed ==
    <<cacheVars, taskVars, poolVars, selVars, retryVars, cleanupVars, probeVars, limiterVars,
      moreVars>>

BreakerTick ==
    /\ now < BreakerMaxTime
    /\ now' = now + 1
    /\ UNCHANGED <<breakerFixed, breakerVars>>

\* call, up to operation().await or to the return of CircuitOpenError
BreakerCall ==
    /\ bpc = "idle"
    /\ LET g == CallGate(breaker, now) IN
       /\ breaker' = g.breaker
       /\ IF g.run
          THEN /\ bpc' = "running"
               /\ blast' = BreakerCallRecord(breaker, TRUE, {})
               /\ bstreak' = IF breaker.state = "Open" /\ g.breaker.state = "HalfOpen"
                             THEN 0 ELSE bstreak
          ELSE /\ bpc' = "idle"
               /\ blast' = BreakerCallRecord(breaker, FALSE, {Err(CircuitOpenError)})
               /\ bstreak' = bstreak
    /\ UNCHANGED <<now, breakerFixed, bexec>>

\* operation().await returns outcome; call returns it after on_success or
\* on_failure
BreakerReturn(outcome) ==
    /\ bpc = "running"
    /\ breaker' = IF outcome.ok THEN on_success(breaker) ELSE on_failure(breaker, now)
    /\ bpc' = "idle"
    /\ blast' = [blast EXCEPT !.ret = {outcome}]
    /\ bexec' = IF outcome.ok THEN bexec ELSE bexec \cup {outcome.error.kind}
    /\ bstreak' = IF outcome.ok /\ bstreak \in 0..(SuccessThreshold - 1)
                  THEN bstreak + 1 ELSE -1
    /\ UNCHANGED <<now, breakerFixed>>

NextBreaker ==
    \/ BreakerTick
    \/ BreakerCall
    \/ \E outcome \in BreakerOutcomes : BreakerReturn(outcome)

SpecBreaker == InitBreaker /\ [][NextBreaker]_vars

(***************************************************************************)
(* The facade and its cleanup task: the owner stores values and may start  *)
(* the task and drop its handle; the task sleeps and cleans in turns.      *)
(***************************************************************************)
InitCleanup ==
    /\ CacheNew /\ TasksIdle /\ SelIdle /\ NoPool /\ NoRetry
    /\ NoBreaker /\ FacadeNew /\ NoProbe /\ NoLimiter /\ MoreIdle

cleanupFixed ==
    <<now, max_size, taskVars, poolVars, selVars, retryVars, breakerVars, probeVars,
      limiterVars, moreVars>>

\* set_balance / set_tx_status / set_block through the owner's handle
OwnerSet(key, value, ttl) == owner = "held" /\ Set(key, value, ttl)

\* start_cleanup_task(self: Arc<Self>), called on a clone of the owner's handle
\* or on the handle itself (moved): the task keeps one clone
StartCleanupTask(moved) ==
    /\ owner = "held"
    /\ cleaner = "off"
    /\ cleaner' = "sleeping"
    /\ owner' = IF moved THEN "dropped" ELSE "held"
    /\ strong' = IF moved THEN strong ELSE strong + 1
    /\ last' = Call("start_cleanup_task", NoKey, None)
    /\ UNCHANGED <<cleanupFixed, store, stats, hist>>

\* drop(handle) by the owner
DropOwner ==
    /\ owner = "held"
    /\ owner' = "dropped"
    /\ strong' = strong - 1
    /\ cleaner' = CleanerAfterDrop(cleaner)
    /\ last' = Call("drop", NoKey, None)
    /\ UNCHANGED <<cleanupFixed, store, stats, hist>>

\* tokio::time::sleep(interval).await returns in the task
CleanupWake ==
    /\ cleaner = "sleeping"
    /\ cleaner' = "cleaning"
    /\ last' = Call("sleep", NoKey, None)
    /\ UNCHANGED <<cleanupFixed, store, stats, hist, owner, strong>>

\* cache.cleanup().await in the task, then the next turn of the loop
CleanupRound ==
    /\ cleaner = "cleaning"
    /\ store' = CleanupStore(store, now)
    /\ stats' = CleanupStats(store, stats, now)
    /\ last' = Call("cleanup_expired", NoKey, None)
    /\ hist' = HistEvict(hist, ExpiredKeys(store, now))
    /\ cleaner' = "sleeping"
    /\ UNCHANGED <<cleanupFixed, owner, strong>>

NextCleanup ==
    \/ Tick
    \/ \E key \in Keys : \E value \in ValuesFor(key), ttl \in Ttls : OwnerSet(key, value, ttl)
    \/ \E moved \in BOOLEAN : StartCleanupTask(moved)
    \/ DropOwner
    \/ CleanupWake
    \/ CleanupRound

SpecCleanup == InitCleanup /\ [][NextCleanup]_vars

\* the runtime keeps polling the spawned task
SpecCleanupFair == SpecCleanup /\ WF_vars(CleanupWake) /\ WF_vars(CleanupRound)

(***************************************************************************)
(* One run_health_checks call at a time on a built pool: it takes the read *)
(* lock of the connection list, probes and marks each connection in turn,  *)
(* and drops the guard when it returns.                                    *)
(***************************************************************************)
InitProbe == InitPool /\ pool_result = "Ok"

probeFixed ==
    <<cacheVars, taskVars, selVars, retryVars, breakerVars, cleanupVars, limiterVars,
      moreVars, pool_result, endpoints, connects, config, next_index, checker>>

\* let connections = self.connections.read().await
HcEnter ==
    /\ hpc = "idle"
    /\ hpc' = "locked"
    /\ hidx' = 1
    /\ hheld' = hheld \cup {"connections"}
    /\ served' = << >>
    /\ UNCHANGED <<now, probeFixed, connections, plast>>

\* conn.adapter.provider().get_block_number() is sent for the next connection
HcProbe ==
    /\ hpc = "locked"
    /\ hidx <= Len(connections)
    /\ hpc' = "probing"
    /\ UNCHANGED <<now, probeFixed, connections, plast, served, hidx, hheld>>

\* .await returns result; the connection is marked
HcProbeReturn(result) ==
    /\ hpc = "probing"
    /\ result.ok \/ connections[hidx].failure_count < MaxFailureCount
    /\ connections' = [connections EXCEPT ![hidx] =
                          IF result.ok THEN MarkHealthy(@, result.ms, now)
                                       ELSE MarkUnhealthy(@, now)]
    /\ hidx' = hidx + 1
    /\ hpc' = "locked"
    /\ plast' = PoolCall("probe", {hidx - 1}, 1, IF result.ok THEN {hidx - 1} ELSE {})
    /\ UNCHANGED <<now, probeFixed, served, hheld>>

\* Ok(()) after the last connection; the guard is dropped
HcReturn ==
    /\ hpc = "locked"
    /\ hidx > Len(connections)
    /\ hpc' = "idle"
    /\ hidx' = 0
    /\ hheld' = hheld \ {"connections"}
    /\ plast' = PoolCall("run_health_checks", NoConn, Len(connections), {})
    /\ UNCHANGED <<now, probeFixed, connections, served>>

NextProbe ==
    \/ PoolTick
    \/ HcEnter
    \/ HcProbe
    \/ \E result \in ProbeResults : HcProbeReturn(result)
    \/ HcReturn

SpecProbe == InitProbe /\ [][NextProbe]_vars

(***************************************************************************)
(* Tasks sharing one RateLimiter call acquire().  From lock().await to the *)
(* return, or to drop(requests), a pass of the loop awaits nothing, so it  *)
(* is one step; a task that has to wait sleeps with the lock released.     *)
(***************************************************************************)
InitLimiter ==
    /\ CacheNew /\ max_size = 0 /\ TasksIdle /\ SelIdle /\ NoPool /\ NoRetry
    /\ NoBreaker /\ NoCleanup /\ NoProbe /\ LimiterNew /\ MoreIdle

limiterFixed ==
    <<cacheVars, taskVars, poolVars, selVars, retryVars, breakerVars, cleanupVars,
      probeVars, moreVars, limiter>>

\* the acquire() calls started so far
AcquiresStarted == Len(granted) + Cardinality({t \in LimTasks : apc[t] # "idle"})

LimTick ==
    /\ now < LimMaxTime
    /\ now' = now + 1
    /\ UNCHANGED <<limiterFixed, requests, apc, wake_at, granted>>

AcqInvoke(t) ==
    /\ apc[t] = "idle"
    /\ AcquiresStarted < MaxAcquires
    /\ apc' = [apc EXCEPT ![t] = "lock"]
    /\ UNCHANGED <<now, limiterFixed, requests, wake_at, granted>>

\* one pass of the loop, under the mutex
AcqPass(t) ==
    /\ apc[t] = "lock"
    /\ LET kept == Retain(requests, now, limiter.window) IN
       IF AcquireAdmits(kept, limiter.max_requests)
       THEN /\ requests' = Append(kept, now)
            /\ granted' = Append(granted, now)
            /\ apc' = [apc EXCEPT ![t] = "idle"]
            /\ UNCHANGED wake_at
       ELSE /\ requests' = kept
            /\ IF WaitTime(kept, now, limiter.window) # None
               THEN /\ apc' = [apc EXCEPT ![t] = "sleep"]
                    /\ wake_at' = [wake_at EXCEPT ![t] =
                           now + CHOOSE w \in WaitTime(kept, now, limiter.window) : TRUE]
               ELSE UNCHANGED <<apc, wake_at>>
            /\ UNCHANGED granted
    /\ UNCHANGED <<now, limiterFixed>>

\* tokio::time::sleep(wait_time).await returns, no earlier than asked
AcqWake(t) ==
    /\ apc[t] = "sleep"
    /\ now >= wake_at[t]
    /\ apc' = [apc EXCEPT ![t] = "lock"]
    /\ UNCHANGED <<now, limiterFixed, requests, wake_at, granted>>

NextLimiter ==
    \/ LimTick
    \/ \E t \in LimTasks : AcqInvoke(t)
    \/ \E t \in LimTasks : AcqPass(t)
    \/ \E t \in LimTasks : AcqWake(t)

SpecLimiter == InitLimiter /\ [][NextLimiter]_vars

(***************************************************************************)
(* mark_healthy calls with measured latencies on the connection of a pool  *)
(* of one endpoint, as run_health_checks and direct callers make them.     *)
(***************************************************************************)
MaxSamples == 3
SampleValues == {0, 1, 10, 100}

InitAvg == InitPool /\ pool_result = "Ok" /\ endpoints = <<"A">>

avgFixed ==
    <<cacheVars, taskVars, selVars, retryVars, breakerVars, cleanupVars, probeVars,
      limiterVars, evmVars, lockVars, pool_result, endpoints, connects, config, next_index,
      checker>>

\* conn.mark_healthy(response_time_ms).await
SampleMarkHealthy(response_time_ms) ==
    /\ Len(samples) < MaxSamples
    /\ connections' = [connections EXCEPT ![1] = MarkHealthy(@, response_time_ms, now)]
    /\ samples' = Append(samples, response_time_ms)
    /\ plast' = PoolCall("mark_healthy", {0}, 0, {0})
    /\ served' = << >>
    /\ UNCHANGED <<now, avgFixed>>

\* conn.mark_unhealthy().await: the average is left as it is
SampleMarkUnhealthy ==
    /\ connections[1].failure_count < MaxFailureCount
    /\ connections' = [connections EXCEPT ![1] = MarkUnhealthy(@, now)]
    /\ plast' = PoolCall("mark_unhealthy", {0}, 0, {})
    /\ served' = << >>
    /\ UNCHANGED <<now, avgFixed, samples>>

NextAvg ==
    \/ \E response_time_ms \in SampleValues : SampleMarkHealthy(response_time_ms)
    \/ SampleMarkUnhealthy

SpecAvg == InitAvg /\ [][NextAvg]_vars

(***************************************************************************)
(* Calls on one EvmCache: the getters and setters of its three tiers.      *)
(***************************************************************************)
MaxEvmCalls == 3

InitEvm ==
    /\ CacheNew /\ max_size = 0 /\ TasksIdle /\ SelIdle /\ NoPool /\ NoRetry
    /\ NoBreaker /\ NoCleanup /\ NoProbe /\ NoLimiter /\ NoSamples /\ NoLocks
    /\ ecfg \in CacheConfigs
    /\ tiers = EvmCacheNew(ecfg)
    /\ elast = EvmCall("with_config", "balance", NoKey, None)

evmFixed ==
    <<cacheVars, taskVars, poolVars, selVars, retryVars, breakerVars, cleanupVars,
      probeVars, limiterVars, avgVars, lockVars, ecfg>>

\* the get and set calls made so far, over the three tiers
EvmCallsMade ==
    LET n(tier) == tiers[tier].stats.hits + tiers[tier].stats.misses
                   + tiers[tier].stats.sets
    IN  n("balance") + n("tx_status") + n("block")

EvmTick ==
    /\ now < MaxTime
    /\ now' = now + 1
    /\ elast' = EvmCall("tick", "balance", NoKey, None)
    /\ UNCHANGED <<evmFixed, tiers>>

\* get_balance / get_tx_status / get_block: Cache::get on the tier's cache
EvmGet(tier, key) ==
    /\ EvmCallsMade < MaxEvmCalls
    /\ LET c == tiers[tier] IN
         /\ tiers' = [tiers EXCEPT ![tier].stats = GetStats(c.store, c.stats, key, now)]
         /\ elast' = EvmCall("get", tier, key, GetReturn(c.store, key, now))
    /\ UNCHANGED <<now, evmFixed>>

\* set_balance / set_tx_status / set_block: Cache::set on the tier's cache
\* with the tier's ttl
EvmSet(tier, key, value) ==
    /\ EvmCallsMade < MaxEvmCalls
    /\ LET c == tiers[tier] IN
       \E out \in SetOutcomes(c.store, c.stats, key, value, TierTtl(ecfg, tier),
                              c.max_size, now) :
         /\ tiers' = [tiers EXCEPT ![tier].store = out.store, ![tier].stats = out.stats]
         /\ elast' = EvmCall("set", tier, key, None)
    /\ UNCHANGED <<now, evmFixed>>

NextEvm ==
    \/ EvmTick
    \/ \E tier \in Tiers : \E key \in TierKeys(tier) : EvmGet(tier, key)
    \/ \E tier \in Tiers : \E key \in TierKeys(tier), value \in Values : EvmSet(tier, key, value)

SpecEvm == InitEvm /\ [][NextEvm]_vars

(***************************************************************************)
(* Tasks calling the Cache and the pool concurrently, reduced to the locks *)
(* they take.  tokio's RwLock is fair: a request is granted at once only   *)
(* if nobody is waiting for the lock and it is free for the mode asked     *)
(* for; otherwise the task queues and is granted the lock when it is first *)
(* in the queue and the lock has become free for it.                       *)
(***************************************************************************)
InitLocks == InitCache

lockFixed == <<now, cacheVars, taskVars, poolVars, selVars, retryVars, breakerVars, cleanupVars,
               probeVars, limiterVars, avgVars, evmVars>>

Busy(t) == lpos[t] # 0
AtStep(t) == lprog[t][lpos[t]]
AtReturn(t) == Busy(t) /\ lpos[t] > Len(lprog[t])
Queued(t, lock) == \E i \in 1..Len(lqueue[lock]) : lqueue[lock][i] = t

Compatible(lock, mode) ==
    IF mode = "read" THEN CanRead(lheld[lock]) ELSE CanWrite(lheld[lock])

Hold(lock, mode, t) ==
    IF mode = "read" THEN [lheld[lock] EXCEPT !.readers = @ \cup {t}]
                     ELSE [lheld[lock] EXCEPT !.writers = @ \cup {t}]

\* a call is entered
LkInvoke(t, op, prog) ==
    /\ ~Busy(t)
    /\ prog \in LockPrograms(op)
    /\ lprog' = [lprog EXCEPT ![t] = prog]
    /\ lpos' = [lpos EXCEPT ![t] = 1]
    /\ UNCHANGED <<lockFixed, lheld, lqueue>>

\* lock.read().await / lock.write().await is polled for the first time
LkRequest(t) ==
    /\ Busy(t) /\ ~AtReturn(t)
    /\ AtStep(t).act = "acquire"
    /\ ~Queued(t, AtStep(t).lock)
    /\ LET lock == AtStep(t).lock
           mode == AtStep(t).mode
       IN  IF lqueue[lock] = << >> /\ Compatible(lock, mode)
           THEN /\ lheld' = [lheld EXCEPT ![lock] = Hold(lock, mode, t)]
                /\ lpos' = [lpos EXCEPT ![t] = @ + 1]
                /\ UNCHANGED lqueue
           ELSE /\ lqueue' = [lqueue EXCEPT ![lock] = Append(@, t)]
                /\ UNCHANGED <<lheld, lpos>>
    /\ UNCHANGED <<lockFixed, lprog>>

\* the first waiter is given the lock
LkGrant(t) ==
    /\ Busy(t) /\ ~AtReturn(t)
    /\ AtStep(t).act = "acquire"
    /\ LET lock == AtStep(t).lock
           mode == AtStep(t).mode
       IN  /\ lqueue[lock] # << >> /\ Head(lqueue[lock]) = t
           /\ Compatible(lock, mode)
           /\ lqueue' = [lqueue EXCEPT ![lock] = Tail(@)]
           /\ lheld' = [lheld EXCEPT ![lock] = Hold(lock, mode, t)]
           /\ lpos' = [lpos EXCEPT ![t] = @ + 1]
    /\ UNCHANGED <<lockFixed, lprog>>

\* a guard is dropped inside the call
LkRelease(t) ==
    /\ Busy(t) /\ ~AtReturn(t)
    /\ AtStep(t).act = "release"
    /\ lheld' = [lheld EXCEPT ![AtStep(t).lock] = Release(@, t)]
    /\ lpos' = [lpos EXCEPT ![t] = @ + 1]
    /\ UNCHANGED <<lockFixed, lprog, lqueue>>

\* the call returns: the guards still alive are dropped
LkReturn(t) ==
    /\ AtReturn(t)
    /\ lheld' = [l \in LockNames |-> Release(lheld[l], t)]
    /\ lpos' = [lpos EXCEPT ![t] = 0]
    /\ lprog' = [lprog EXCEPT ![t] = << >>]
    /\ UNCHANGED <<lockFixed, lqueue>>

LkStep(t) == LkRequest(t) \/ LkGrant(t) \/ LkRelease(t) \/ LkReturn(t)

NextLocks ==
    \/ \E t \in LockTasks, op \in CacheOps \cup PoolOps :
          \E prog \in LockPrograms(op) : LkInvoke(t, op, prog)
    \/ \E t \in LockTasks : LkRequest(t)
    \/ \E t \in LockTasks : LkGrant(t)
    \/ \E t \in LockTasks : LkRelease(t)
    \/ \E t \in LockTasks : LkReturn(t)

SpecLocks == InitLocks /\ [][NextLocks]_vars

\* the runtime keeps polling every task that can go on
SpecLocksFair == SpecLocks /\ \A t \in LockTasks : WF_vars(LkStep(t))

(***************************************************************************)
(* Properties of the sequential cache (checked under SpecCache).           *)
(* Did(op, key): the step is a completed call of op on key.                *)
(***************************************************************************)
Did(op, key) == last'.op = op /\ last'.key = key

Elapsed(e) == now - e.at

\* C1: after every set call the cache holds at most max_size entries
\* (len() <= max_size), for every capacity a tier can be built with.
C1_CapacityInvariant == MapLen(store) <= max_size

\* C1 restricted to caches of capacity >= 1 (holds; the invariant fails only
\* for a cache built with capacity 0)
C1_CapacityInvariantPositive == max_size >= 1 => MapLen(store) <= max_size

\* C2 (as claimed): a value stored by set(k, v, ttl = d) is returned by get(k)
\* at every time t < d after that set, whatever sets of other keys happen in
\* between, as long as the caller does not remove, clear or overwrite k.
C2_RetrievableBeforeTtl ==
    [][\A e \in hist :
         (Did("get", WatchedKey) /\ e.kept /\ Elapsed(e) < e.ttl)
            => last'.ret = Some(e.value)]_vars

\* C2 (amended): ... as long as the caller does not remove, clear or overwrite
\* k and no set of another key has evicted k to make room; the get is then
\* counted as a hit.
C2_RetrievableUnlessEvicted ==
    [][\A e \in hist :
         (Did("get", WatchedKey) /\ e.kept /\ ~e.evicted /\ Elapsed(e) < e.ttl)
            => /\ last'.ret = Some(e.value)
               /\ stats'.hits = stats.hits + 1
               /\ stats'.misses = stats.misses]_vars

\* a get of the watched key returns its value at 0 < t < d, in a cache that is
\* at capacity and has evicted another key since
C2_Witness ==
    /\ last.op = "get" /\ last.key = WatchedKey /\ last.ret # None
    /\ max_size = 2 /\ MapLen(store) = max_size /\ stats.evictions = 1
    /\ \E e \in hist : e.kept /\ ~e.evicted /\ Elapsed(e) = 1 /\ e.ttl = 2
                         /\ last.ret = Some(e.value)

\* C3: if more than d has elapsed since the most recent set(k, _, ttl = d),
\* get(k) returns None and adds exactly one miss and no hit, whether or not
\* the expired entry is still in the map.
C3_ExpiredIsMiss ==
    [][\A e \in hist :
         (Did("get", WatchedKey) /\ Elapsed(e) > e.ttl)
            => /\ last'.ret = None
               /\ stats'.misses = stats.misses + 1
               /\ stats'.hits = stats.hits]_vars

\* a get of the watched key has missed on an entry that is expired and still
\* in the map
C3_Witness ==
    /\ last = Call("get", WatchedKey, None)
    /\ stats.misses = 1 /\ stats.hits = 0
    /\ WatchedKey \in DOMAIN store
    /\ \E e \in hist : e.kept /\ ~e.evicted /\ Elapsed(e) > e.ttl

\* C4: a set of an absent key into a cache holding max_size entries, none
\* expired, removes exactly one entry, one with the oldest insertion time, and
\* adds exactly 1 to evictions.
C4_EvictsExactlyOldest ==
    [][\A k \in Keys :
         (/\ Did("set", k)
          /\ k \notin DOMAIN store
          /\ MapLen(store) = max_size
          /\ \A j \in DOMAIN store : now - store[j].inserted_at <= store[j].ttl)
            => /\ \E victim \in DOMAIN store :
                    /\ DOMAIN store' = ((DOMAIN store) \ {victim}) \cup {k}
                    /\ \A j \in DOMAIN store :
                          store[victim].inserted_at <= store[j].inserted_at
               /\ stats'.evictions = stats.evictions + 1]_vars

\* C4 restricted to caches of capacity >= 1 (holds; the claim fails only for
\* the zero-capacity cache of C1)
C4_EvictsExactlyOldestPositive ==
    [][\A k \in Keys :
         (/\ Did("set", k)
          /\ max_size >= 1
          /\ k \notin DOMAIN store
          /\ MapLen(store) = max_size
          /\ \A j \in DOMAIN store : now - store[j].inserted_at <= store[j].ttl)
            => /\ \E victim \in DOMAIN store :
                    /\ DOMAIN store' = ((DOMAIN store) \ {victim}) \cup {k}
                    /\ \A j \in DOMAIN store :
                          store[victim].inserted_at <= store[j].inserted_at
                    /\ \A j \in (DOMAIN store) \ {victim} : store'[j] = store[j]
               /\ stats'.evictions = stats.evictions + 1]_vars

\* C5: after every completed set, remove, clear and cleanup_expired call,
\* stats().entries equals the number of entries in the map.
C5_EntriesIsLen == stats.entries = MapLen(store)

\* cleanup_expired has removed one of two entries and left the other
C5_Witness ==
    /\ last.op = "cleanup_expired"
    /\ max_size = 2 /\ stats.sets = 2 /\ stats.evictions = 1
    /\ MapLen(store) = 1 /\ stats.entries = 1

\* C6: get never changes the map; a get of a key whose entry is expired leaves
\* the entry in the map, leaves entries, sets and evictions unchanged and
\* adds exactly one miss.
C6_GetLeavesMap ==
    [][\A k \in Keys :
         Did("get", k)
            => /\ store' = store
               /\ stats'.entries = stats.entries
               /\ stats'.sets = stats.sets
               /\ stats'.evictions = stats.evictions
               /\ (k \in DOMAIN store /\ now - store[k].inserted_at > store[k].ttl)
                     => /\ k \in DOMAIN store'
                        /\ stats'.misses = stats.misses + 1
                        /\ stats'.hits = stats.hits]_vars

\* a get has missed on an expired entry, which is still in a non-empty map
C6_Witness ==
    /\ last.op = "get" /\ last.ret = None
    /\ last.key \in DOMAIN store
    /\ now - store[last.key].inserted_at > store[last.key].ttl
    /\ stats.misses = 1 /\ stats.entries = MapLen(store)

(***************************************************************************)
(* Properties of the concurrent cache (checked under SpecTasks).           *)
(***************************************************************************)
AllIdle == \A t \in Tasks : pc[t] = "idle"

\* C7: under any interleaving of concurrent get, set and remove calls no stats
\* update is lost: once all calls have completed, hits + misses is the number
\* of get calls and sets the number of set calls.
C7_NoLostStatsUpdate ==
    AllIdle => /\ stats.hits + stats.misses = invoked.get
               /\ stats.sets = invoked.set

\* every task has returned after two gets and a set ran, one of them started
\* while another task's call was still running
C7_Witness ==
    /\ AllIdle
    /\ invoked.overlapped
    /\ invoked.get = 2 /\ invoked.set = 1
    /\ stats.hits + stats.misses = 2 /\ stats.sets = 1

(***************************************************************************)
(* Properties of the pool (checked under SpecPool).                        *)
(***************************************************************************)
Positions == 0..(Len(connections) - 1)

\* the connection at position i began with the default (healthy) health or
\* has been marked healthy since
StartedHealthy(i) == connects[i + 1] = <<"ok">> \/ connections[i + 1].last_success # None

\* C8: for the configured max_failures = m, an endpoint that starts healthy is
\* still healthy after m - 1 consecutive mark_unhealthy calls and unhealthy
\* after the m-th (failure_count is the length of the streak, which
\* mark_healthy resets to 0).
C8_UnhealthyAtMaxFailures ==
    \A i \in Positions :
        StartedHealthy(i) =>
            (connections[i + 1].is_healthy
                <=> connections[i + 1].failure_count < config.max_failures)

\* C9: mark_healthy leaves is_healthy = true and failure_count = 0 whatever
\* the state before, and is_healthy goes from false to true only where
\* mark_healthy runs (called directly, or by run_health_checks on a
\* connection whose probe succeeded): never in a mark_unhealthy,
\* get_connection or health_status call or by the passing of time.
C9_OnlyMarkHealthyHeals ==
    [][\A i \in Positions :
         /\ (plast'.op = "mark_healthy" /\ plast'.conn = {i})
               => /\ connections'[i + 1].is_healthy
                  /\ connections'[i + 1].failure_count = 0
         /\ (~connections[i + 1].is_healthy /\ connections'[i + 1].is_healthy)
               => /\ plast'.op \in {"mark_healthy", "run_health_checks"}
                  /\ i \in plast'.marked_healthy
         /\ plast'.op \in {"mark_unhealthy", "get_connection", "health_status", "tick"}
               => (connections'[i + 1].is_healthy => connections[i + 1].is_healthy)]_vars

\* mark_healthy has just run on a connection that was unhealthy since the pool
\* was built
C9_Witness ==
    /\ pool_result = "Ok"
    /\ plast = PoolCall("mark_healthy", {0}, 0, {0})
    /\ connects[1] = <<"err", "ok">>
    /\ connections[1].last_failure = None
    /\ connections[1].is_healthy /\ connections[1].failure_count = 0

\* C10: with_config returns an error if and only if the endpoint list is
\* empty; an endpoint whose connect fails is still in the pool, unhealthy with
\* failure_count = 1, so the pool holds one connection per endpoint.
C10_ConstructionTolerant ==
    /\ pool_result = "Err" <=> Len(endpoints) = 0
    /\ (plast.op = "with_config" /\ pool_result = "Ok")
          => /\ Len(connections) = Len(endpoints)
             /\ \A i \in 1..Len(endpoints) :
                   connects[i][1] = "err"
                      => /\ ~connections[i].is_healthy
                         /\ connections[i].failure_count = 1

(***************************************************************************)
(* Properties of get_connection (checked under SpecPool).                  *)
(***************************************************************************)
PoolSize == Len(connections)

AllHealthy == \A i \in 1..PoolSize : connections[i].is_healthy

\* the connection at 1-based position i is unhealthy and its cooldown has not
\* elapsed for get_connection
Down(i) == ~connections[i].is_healthy /\ ~CooledDown(connections[i], config, now)

DidGetConnection == plast'.op = "get_connection"

\* C11: in a pool of N connections that are all healthy, N get_connection
\* calls in a row return each of the N connections exactly once, in cursor
\* order, and the (N+1)-th returns the same connection as the first.
C11_RoundRobin ==
    (pool_result = "Ok" /\ AllHealthy) =>
        /\ \A j \in 1..(Len(served) - 1) : served[j + 1] = (served[j] + 1) % PoolSize
        /\ \A j \in 1..(Len(served) - PoolSize + 1) :
              {served[j + d] : d \in 0..(PoolSize - 1)} = 0..(PoolSize - 1)
        /\ \A j \in 1..(Len(served) - PoolSize) : served[j + PoolSize] = served[j]

\* three get_connection calls in a row on a pool of two healthy connections,
\* starting from the first connection
C11_Witness ==
    /\ pool_result = "Ok" /\ PoolSize = 2 /\ AllHealthy
    /\ served = <<0, 1, 0>>

\* C13: on a non-empty pool get_connection returns Ok whatever the health of
\* the endpoints; when every connection is unhealthy and not cooled down it
\* makes exactly pool_size probes and returns the connection at position 0.
C13_NeverFails ==
    [][DidGetConnection =>
          /\ plast'.result = "Ok"
          /\ \E i \in 0..(PoolSize - 1) : plast'.conn = {i}
          /\ (\A i \in 1..PoolSize : Down(i))
                => /\ plast'.probes = PoolSize
                   /\ next_index' = next_index + PoolSize
                   /\ plast'.conn = {0}]_vars

\* get_connection has fallen back to position 0 after probing both unhealthy
\* connections of a pool of two, the cursor having started at position 1
C13_Witness ==
    /\ plast.op = "get_connection" /\ plast.branch = "fallback"
    /\ plast.result = "Ok" /\ plast.conn = {0} /\ plast.probes = 2
    /\ PoolSize = 2 /\ next_index = 3
    /\ \A i \in 1..PoolSize : Down(i)

\* the position get_connection probes first
FirstProbe == next_index % PoolSize

\* the time since the last failure of the connection at 1-based position i,
\* and the retry delay, both in clock ticks
SinceFailure(i) == {now - lf : lf \in connections[i].last_failure}

RetryDelay == config.unhealthy_retry_delay_secs * TicksPerSec

\* C14: when get_connection probes a connection that is unhealthy with
\* now - last_failure > unhealthy_retry_delay it returns that connection; with
\* now - last_failure <= unhealthy_retry_delay it does not return it from that
\* probe and moves on to the next candidate.
C14_RetryAfterDelay ==
    [][(DidGetConnection /\ ~connections[FirstProbe + 1].is_healthy) =>
          \A e \in SinceFailure(FirstProbe + 1) :
              /\ e > RetryDelay
                    => (plast'.conn = {FirstProbe} /\ plast'.probes = 1
                        /\ plast'.branch = "retry")
              /\ e <= RetryDelay
                    => (plast'.probes > 1 \/ plast'.branch = "fallback")]_vars

\* C14 as the code has it: the connection is returned when the whole seconds
\* elapsed since last_failure exceed unhealthy_retry_delay_secs, that is when
\* now - last_failure >= unhealthy_retry_delay + 1 s
C14_RetryAfterWholeSeconds ==
    [][(DidGetConnection /\ ~connections[FirstProbe + 1].is_healthy) =>
          \A e \in SinceFailure(FirstProbe + 1) :
              /\ e >= RetryDelay + TicksPerSec
                    => (plast'.conn = {FirstProbe} /\ plast'.probes = 1
                        /\ plast'.branch = "retry")
              /\ e < RetryDelay + TicksPerSec
                    => (plast'.probes > 1 \/ plast'.branch = "fallback")]_vars

\* get_connection has returned, from its first probe, an unhealthy connection
\* whose last failure is a whole second more than the delay ago
C14_Witness ==
    /\ plast.op = "get_connection" /\ plast.branch = "retry" /\ plast.probes = 1
    /\ \E i \in 1..PoolSize :
          /\ plast.conn = {i - 1}
          /\ ~connections[i].is_healthy
          /\ \E e \in SinceFailure(i) : e = RetryDelay + TicksPerSec

\* C15: get_connection changes no field of any EndpointHealth in any of its
\* branches; the only pool state it changes is the round-robin cursor.
C15_GetConnectionFrame ==
    [][DidGetConnection =>
          /\ connections' = connections
          /\ <<pool_result, endpoints, config>>' = <<pool_result, endpoints, config>>
          /\ next_index' = next_index + plast'.probes
          /\ plast'.branch \in {"healthy", "retry", "fallback"}]_vars

\* get_connection has fallen back to position 0, whose connection is still as
\* with_config built it: unhealthy with one failure and no timestamps
C15_Witness ==
    /\ plast.op = "get_connection" /\ plast.branch = "fallback"
    /\ connections[1] = [EndpointHealthDefault EXCEPT !.is_healthy = FALSE,
                                                      !.failure_count = 1]

(***************************************************************************)
(* Properties of run_health_checks (checked under SpecHealth).             *)
(***************************************************************************)
\* C16: one run_health_checks pass probes every connection once, marks healthy
\* each connection whose probe succeeded and unhealthy each whose probe
\* failed, whatever the other probes returned, and returns Ok; the background
\* loop is never ended by a round.
C16_EveryConnectionChecked ==
    [][plast'.op = "run_health_checks" =>
          /\ plast'.result = "Ok"
          /\ plast'.probes = PoolSize
          /\ \A i \in 1..PoolSize :
                IF i - 1 \in plast'.marked_healthy
                THEN \E ms \in Latencies :
                        connections'[i] = MarkHealthy(connections[i], ms, now)
                ELSE connections'[i] = MarkUnhealthy(connections[i], now)
          /\ checker' = checker
          /\ checker' # "ended"]_vars

\* a round of the background loop in which the probe of the first connection
\* failed and the probe of the second succeeded has marked both, and the loop
\* is still running
C16_Witness ==
    /\ plast.op = "run_health_checks" /\ plast.branch = "round"
    /\ plast.marked_healthy = {1}
    /\ connections[1].last_failure = Some(now) /\ connections[1].failure_count = 2
    /\ connections[2].last_success = Some(now) /\ connections[2].is_healthy
    /\ checker = "on"

\* A's probe has always succeeded and B's always failed since a pool of the
\* two was built with both connected, under the default threshold
AlwaysAOnlyB ==
    /\ pool_result = "Ok" /\ PoolSize = 2
    /\ connects = <<(<<"ok">>), (<<"ok">>)>>
    /\ config.max_failures = 3
    /\ connections[1].last_failure = None
    /\ connections[2].last_success = None

\* the number of passes made so far in that scenario
Passes == connections[2].failure_count

\* C17: in a 2-endpoint pool where A's probe always succeeds and B's always
\* fails, with the default threshold 3: after one pass A is healthy and B has
\* failure_count = 1 and is still healthy; after three passes B is unhealthy;
\* from then on every get_connection returns A, never B, as long as no more
\* than unhealthy_retry_delay has elapsed since B's last failure.
C17_FailoverScenario ==
    /\ [](AlwaysAOnlyB =>
             /\ Passes = 1 => /\ connections[1].is_healthy
                              /\ connections[2].is_healthy
                              /\ connections[1].failure_count = 0
             /\ Passes >= 3 => ~connections[2].is_healthy)
    /\ [][(AlwaysAOnlyB /\ Passes >= 3 /\ DidGetConnection
             /\ \A e \in SinceFailure(2) : e <= RetryDelay)
                => plast'.conn = {0}]_vars

\* after three passes and within the retry delay of B's last failure,
\* get_connection has probed B, skipped it and returned A
C17_Witness ==
    /\ AlwaysAOnlyB /\ Passes = 3 /\ ~connections[2].is_healthy
    /\ connections[1].is_healthy
    /\ plast.op = "get_connection" /\ plast.conn = {0} /\ plast.probes = 2
    /\ \E e \in SinceFailure(2) : e > 0 /\ e <= RetryDelay

(***************************************************************************)
(* Properties of concurrent get_connection (checked under SpecSelect).     *)
(***************************************************************************)
\* the probes made so far: <<task, number of the probe among the task's own>>
Probes == {p \in SelTasks \X (1..MaxSelCalls * PoolSize) : p[2] <= Len(gobserved[p[1]])}

\* the get_connection calls completed so far: <<task, number of the call>>
Returned == {c \in SelTasks \X (1..MaxSelCalls) : c[2] <= Len(gret[c[1]])}

SelAllIdle == \A t \in SelTasks : gpc[t] = "idle"

\* C12: under any interleaving of concurrent get_connection calls no two
\* probes observe the same cursor value, and the values one call observes are
\* strictly increasing; so when N calls in all have run on N all-healthy
\* connections, each connection has been returned exactly once.
C12_DistinctCursorValues ==
    /\ \A p, q \in Probes :
          p # q => gobserved[p[1]][p[2]] # gobserved[q[1]][q[2]]
    /\ \A t \in SelTasks : \A j \in 1..(Len(gobserved[t]) - 1) :
          gobserved[t][j] < gobserved[t][j + 1]
    /\ (pool_result = "Ok" /\ AllHealthy /\ SelAllIdle /\ Cardinality(Returned) = PoolSize)
          => \A i \in 0..(PoolSize - 1) :
                Cardinality({c \in Returned : gret[c[1]][c[2]] = i}) = 1

\* two tasks have each completed one call on a pool of two healthy
\* connections, the later-named task's fetch_add having come first
C12_Witness ==
    /\ pool_result = "Ok" /\ PoolSize = 2 /\ AllHealthy /\ SelAllIdle
    /\ gobserved = [t \in SelTasks |-> IF t = "t1" THEN << >>
                                       ELSE IF t = "t2" THEN <<1>> ELSE <<0>>]
    /\ gret = gobserved

(***************************************************************************)
(* Properties of with_retry and is_retryable (checked under SpecRetry and  *)
(* SpecRetryFair).                                                         *)
(***************************************************************************)
RetryDone == rpc = "done"

\* C18: with_retry invokes the operation exactly once, without sleeping, when
\* it fails with a non-retryable error, and exactly max_retries + 1 times when
\* it always fails with a retryable error, then returns the error; whatever
\* the operation does it returns after at most max_retries + 1 invocations.
C18_RetryTermination ==
    /\ [](/\ rlog.calls <= rcfg.max_retries + 1
          /\ rlog.sleeps <= rcfg.max_retries
          /\ \A o \in rresult :
                (~o.ok /\ is_retryable(o.error))
                   => /\ rlog.calls = rcfg.max_retries + 1
                      /\ rlog.failed = rcfg.max_retries + 1
                      /\ rlog.sleeps = rcfg.max_retries)
    /\ [][\A o \in rlast' :
             (rlog.calls = 0 /\ rlog'.calls = 1 /\ ~o.ok /\ ~is_retryable(o.error))
                => /\ rresult' = {o}
                   /\ rlog'.sleeps = 0
                   /\ RetryDone']_vars
    /\ <>RetryDone

\* with max_retries = 3 the operation has failed with a retryable error four
\* times, with_retry has slept three times and returned the last error
C18_Witness ==
    /\ RetryDone /\ rcfg.max_retries = 3
    /\ rlog.calls = 4 /\ rlog.failed = 4 /\ rlog.sleeps = 3
    /\ \E o \in rresult : ~o.ok /\ is_retryable(o.error)

\* C19: with_retry returns Ok with the value of the first successful attempt
\* and invokes the operation no further; otherwise it returns exactly the
\* error of the last attempt it made, not an earlier attempt's and not a
\* wrapped or substituted one.
C19_ReturnsLastOutcome ==
    /\ [](/\ RetryDone => rresult = rlast /\ rresult # {}
          /\ ~RetryDone => rresult = {}
          /\ \A o \in rresult : o.ok => rlog.failed = rlog.calls - 1
          /\ \A o \in rresult : ~o.ok => rlog.failed = rlog.calls)
    /\ [][~RetryDone]_vars

\* with_retry has returned the error of its second attempt, which is another
\* error than the one its first attempt failed with
C19_Witness ==
    /\ RetryDone /\ rlog.calls = 2
    /\ \E o \in rresult, e \in rprev :
          /\ ~o.ok /\ ~e.ok /\ o # e
          /\ rlast = {o}
          /\ o.error.kind = e.error.kind

\* the errors the last two invocations failed with
FailedWith == {o.error : o \in {x \in rprev \cup rlast : ~x.ok}}

\* C20 (as claimed): is_retryable is a function of the error kind alone: two
\* errors of the same kind are classified alike whatever their message; every
\* Connection error is retryable and every Config, InvalidAddress,
\* UnsupportedChain, Serialization, Substrate and Evm error is not.
C20_KindDecides ==
    /\ \A e1, e2 \in FailedWith :
          e1.kind = e2.kind => (is_retryable(e1) <=> is_retryable(e2))
    /\ \A e \in FailedWith :
          /\ e.kind = "Connection" => is_retryable(e)
          /\ e.kind \in {"Config", "InvalidAddress", "UnsupportedChain",
                         "Serialization", "Substrate", "Evm"} => ~is_retryable(e)

\* C20 (amended): the kind decides for every kind but Transaction and Other:
\* Connection is retryable; Config, InvalidAddress, UnsupportedChain,
\* Serialization, Substrate and Evm are not; a Transaction error is retryable
\* exactly when its message contains "timeout", "network", "connection" or
\* "unavailable", an Other error exactly when it contains "temporary" or
\* "timeout".  with_retry goes on after a failure only if it is retryable.
C20_KindOrMessageDecides ==
    /\ \A e \in FailedWith :
          /\ e.kind = "Connection" => is_retryable(e)
          /\ e.kind \in {"Config", "InvalidAddress", "UnsupportedChain",
                         "Serialization", "Substrate", "Evm"} => ~is_retryable(e)
          /\ e.kind = "Transaction" =>
                (is_retryable(e) <=>
                    e.msg \cap {"timeout", "network", "connection", "unavailable"} # {})
          /\ e.kind = "Other" =>
                (is_retryable(e) <=> e.msg \cap {"temporary", "timeout"} # {})
    /\ \A o \in rlast :
          (~o.ok /\ ~RetryDone) =>
              /\ o.error.kind \notin {"Config", "InvalidAddress", "UnsupportedChain",
                                      "Serialization", "Substrate", "Evm"}
              /\ o.error.kind = "Transaction" =>
                    o.error.msg \cap {"timeout", "network", "connection", "unavailable"} # {}
              /\ o.error.kind = "Other" => o.error.msg \cap {"temporary", "timeout"} # {}

\* with_retry has retried after a Transaction error that mentions a timeout
\* and given up at once on a Transaction error that does not
C20_Witness ==
    /\ RetryDone /\ rlog.calls = 2 /\ rcfg.max_retries = 3
    /\ rprev = {Err([kind |-> "Transaction", msg |-> {"timeout"}])}
    /\ rlast = {Err([kind |-> "Transaction", msg |-> {}])}
    /\ rresult = rlast

(***************************************************************************)
(* Properties of the circuit breaker (checked under SpecBreaker).          *)
(* Returned(outcome-test): the step is the return of an invoked operation. *)
(***************************************************************************)
OperationReturned == bpc = "running" /\ bpc' = "idle"
ReturnedOutcome == CHOOSE o \in blast'.ret : TRUE

\* C21 (as claimed): while the breaker is Closed each failed call adds one to
\* failure_count and each successful call resets it to 0, and the breaker
\* becomes Open exactly when failure_count reaches failure_threshold.
C21_OpensAtThreshold ==
    [][(OperationReturned /\ breaker.state = "Closed") =>
         IF ReturnedOutcome.ok
         THEN breaker'.failure_count = 0 /\ breaker'.state = "Closed"
         ELSE /\ breaker'.failure_count = breaker.failure_count + 1
              /\ breaker'.state \in {"Closed", "Open"}
              /\ breaker'.state = "Open"
                    <=> breaker'.failure_count = breaker.failure_threshold]_vars

\* C21 (amended): ... and the breaker becomes Open exactly when failure_count
\* is at least failure_threshold after a failure: on the failure_threshold-th
\* failure in a row, and on the first one when failure_threshold = 0.
C21_OpensAtOrAboveThreshold ==
    /\ [](breaker.state = "Closed" =>
            \/ breaker.failure_count < breaker.failure_threshold
            \/ breaker.failure_count = 0)
    /\ [][(OperationReturned /\ breaker.state = "Closed") =>
            IF ReturnedOutcome.ok
            THEN breaker'.failure_count = 0 /\ breaker'.state = "Closed"
            ELSE /\ breaker'.failure_count = breaker.failure_count + 1
                 /\ breaker'.state \in {"Closed", "Open"}
                 /\ breaker'.state = "Open"
                       <=> breaker'.failure_count >= breaker.failure_threshold
                 /\ breaker'.last_failure_time = Some(now)]_vars

\* with failure_threshold = 2 the second failure in a row has opened the
\* breaker, which was still Closed after the first
C21_Witness ==
    /\ breaker.failure_threshold = 2
    /\ blast.op = "call" /\ blast.ran /\ bpc = "idle"
    /\ blast.pre.state = "Closed" /\ blast.pre.failure_count = 1
    /\ breaker.state = "Open" /\ breaker.failure_count = 2

\* the step is a call made through the breaker, up to the point where it
\* either invokes the operation or returns without invoking it
CallMade == bpc = "idle" /\ (bpc' = "running" \/ blast' # blast)

SinceLastFailure(b) == {now - l : l \in b.last_failure_time}

\* C22: while the breaker is Open and now - last_failure_time <= timeout, a
\* call returns the circuit-open error without invoking the operation and
\* leaves state, failure_count, success_count and last_failure_time unchanged.
C22_ShortCircuits ==
    [][(/\ CallMade
        /\ breaker.state = "Open"
        /\ \E e \in SinceLastFailure(breaker) : e <= breaker.timeout)
          => /\ bpc' = "idle"
             /\ ~blast'.ran
             /\ blast'.ret = {Err(CircuitOpenError)}
             /\ breaker' = breaker]_vars

\* a call made exactly timeout > 0 after the last failure was short-circuited
C22_Witness ==
    /\ blast.op = "call" /\ ~blast.ran /\ bpc = "idle"
    /\ blast.ret = {Err(CircuitOpenError)}
    /\ breaker.state = "Open" /\ breaker.timeout = 1
    /\ SinceLastFailure(breaker) = {1}

\* C23: a call made while Open with now - last_failure_time > timeout sets
\* the state to HalfOpen and success_count to 0 and then invokes the
\* operation; it is not short-circuited.
C23_HalfOpensAfterCooldown ==
    [][(/\ CallMade
        /\ breaker.state = "Open"
        /\ \E e \in SinceLastFailure(breaker) : e > breaker.timeout)
          => /\ breaker' = [breaker EXCEPT !.state = "HalfOpen", !.success_count = 0]
             /\ bpc' = "running"
             /\ blast'.ran]_vars

\* the operation is running in a breaker that the call found Open with a
\* success_count of 1 and has made HalfOpen with a success_count of 0
C23_Witness ==
    /\ bpc = "running" /\ blast.ran
    /\ blast.pre.state = "Open" /\ blast.pre.success_count = 1
    /\ breaker.state = "HalfOpen" /\ breaker.success_count = 0

\* C24: in HalfOpen each successful call adds one to success_count and the
\* breaker becomes Closed exactly when success_count reaches
\* success_threshold; so success_threshold successful calls in a row after the
\* cooldown leave the breaker Closed (is_open() false) with failure_count 0.
C24_ClosesAfterSuccesses ==
    /\ [](bstreak = SuccessThreshold =>
            /\ breaker.state = "Closed"
            /\ ~is_open(breaker)
            /\ breaker.failure_count = 0)
    /\ [][(OperationReturned /\ breaker.state = "HalfOpen" /\ ReturnedOutcome.ok)
            => /\ breaker'.success_count = breaker.success_count + 1
               /\ breaker'.failure_count = 0
               /\ breaker'.state \in {"HalfOpen", "Closed"}
               /\ breaker'.state = "Closed"
                     <=> breaker'.success_count = breaker.success_threshold]_vars

\* the second successful call in a row after the cooldown has closed the
\* breaker
C24_Witness ==
    /\ bstreak = SuccessThreshold /\ bpc = "idle"
    /\ blast.pre.state = "HalfOpen" /\ blast.pre.success_count = 1
    /\ breaker.state = "Closed" /\ breaker.success_count = SuccessThreshold

\* C25: the error a short-circuited call returns is of a kind that no error
\* returned by the wrapped operation has.
C25_CircuitOpenDistinct ==
    (bpc = "idle" /\ blast.op = "call" /\ ~blast.ran)
        => \A o \in blast.ret : o.error.kind \notin bexec

(***************************************************************************)
(* Properties of the cleanup task (checked under SpecCleanupFair).         *)
(***************************************************************************)
CleanerRunning == cleaner \in {"sleeping", "cleaning"}

\* C26: once start_cleanup_task has been called, dropping the owner's handle
\* eventually stops the cleanup task: from some point on no round runs.
C26_CleanupStops ==
    [](((owner = "dropped") /\ (cleaner # "off")) => <>[](~CleanerRunning))

\* C26, what holds instead: a started task runs a cleanup round again and
\* again, whether or not the owner still holds its handle, and the facade is
\* never freed
C26_RoundsRecurForever ==
    /\ []((cleaner # "off") => (strong >= 1))
    /\ []((cleaner # "off") => []<>(cleaner = "cleaning"))

\* the task is in a cleanup round after the owner dropped its handle
C26_Witness ==
    /\ owner = "dropped" /\ cleaner = "cleaning" /\ strong = 1
    /\ last.op = "sleep"

(***************************************************************************)
(* Properties of the locks (checked under SpecTasks and SpecProbe).        *)
(***************************************************************************)
Holds(lock, t) == t \in lock.readers \cup lock.writers

\* C27: no operation holds two distinct locks at the same time: no task holds
\* the cache's store lock and its stats lock together.
C27_NoTwoLocks ==
    \A t \in Tasks : ~(Holds(store_lock, t) /\ Holds(stats_lock, t))

\* C28: no backend call is in flight while a state lock is held: during a
\* connection's liveness probe run_health_checks does not hold the lock of
\* the connection list.
C28_NoLockDuringProbe == (hpc = "probing") => ("connections" \notin hheld)

(***************************************************************************)
(* Properties of the rate limiter (checked under SpecLimiter).             *)
(***************************************************************************)
\* C29: under any interleaving of the callers at most max_requests acquire()
\* calls return within any time interval shorter than window: of the calls
\* that return less than a window after a given one, that one included, there
\* are at most max_requests.
C29_AtMostMaxPerWindow ==
    \A i \in 1..Len(granted) :
        Cardinality({j \in i..Len(granted) : granted[j] - granted[i] < limiter.window})
            <= limiter.max_requests

\* four calls by concurrent tasks through a limiter of 2 per 2 ticks: two
\* returned at once and two a window later, all callers done
C29_Witness ==
    /\ limiter = RateLimiterNew(2, 2)
    /\ granted = <<0, 0, 2, 2>>
    /\ \A t \in LimTasks : apc[t] = "idle"

(***************************************************************************)
(* Eviction of expired entries by set (checked under SpecCleanup).         *)
(***************************************************************************)
ExpiredIn(st) == {j \in DOMAIN st : now - st[j].inserted_at > st[j].ttl}

\* C30: a set of an absent key into a cache at capacity that holds at least
\* one expired entry removes every expired entry and no other entry, and adds
\* to evictions exactly the number of expired entries removed.
C30_EvictsExactlyExpired ==
    [][\A k \in Keys :
         (/\ Did("set", k)
          /\ k \notin DOMAIN store
          /\ MapLen(store) >= max_size
          /\ ExpiredIn(store) # {})
            => /\ DOMAIN store' = ((DOMAIN store) \ ExpiredIn(store)) \cup {k}
               /\ \A j \in (DOMAIN store) \ ExpiredIn(store) : store'[j] = store[j]
               /\ stats'.evictions = stats.evictions + Cardinality(ExpiredIn(store))]_vars

\* a set into a full cache of two has removed the expired entry, which was
\* the newer one, and kept the older entry that had not expired
C30_Witness ==
    /\ last.op = "set" /\ max_size = 2 /\ now = 2
    /\ stats.sets = 3 /\ stats.evictions = 1
    /\ \E k \in DOMAIN store : store[k].inserted_at = 0 /\ store[k].ttl = 2
    /\ \E k \in DOMAIN store : k = last.key /\ store[k].inserted_at = 2
    /\ MapLen(store) = 2


(***************************************************************************)
(* cleanup_expired and the overwriting set (checked under SpecCleanup).    *)
(***************************************************************************)
\* C31: cleanup_expired removes every entry expired at the time of the call
\* and no other entry, adds to evictions exactly the number removed, and
\* changes neither the map nor any stat when no entry is expired.
C31_CleanupRemovesExactlyExpired ==
    [][Did("cleanup_expired", NoKey)
         => /\ DOMAIN store' = (DOMAIN store) \ ExpiredIn(store)
            /\ \A j \in (DOMAIN store) \ ExpiredIn(store) : store'[j] = store[j]
            /\ stats'.evictions = stats.evictions + Cardinality(ExpiredIn(store))
            /\ ExpiredIn(store) = {} => (store' = store /\ stats' = stats)]_vars

\* a round has removed the one expired entry of two and kept the live one
C31_Witness ==
    /\ last.op = "cleanup_expired"
    /\ stats.sets = 2 /\ stats.evictions = 1
    /\ MapLen(store) = 1
    /\ \E k \in DOMAIN store : store[k].ttl = 2 /\ ~is_expired(store[k], now)

\* the entry the call has written for k, as CacheEntry::new builds it
Replaced(k) ==
    /\ store'[k] \in {CacheEntryNew(value, ttl, now) : value \in Values, ttl \in Ttls}
    /\ k = WatchedKey =>
         \A e \in hist' : store'[k] = CacheEntryNew(e.value, e.ttl, e.at) /\ e.at = now

\* C39: set on a key already in the map evicts nothing, even in a full
\* cache: the keys (so len()) and evictions are unchanged, every other entry
\* is untouched, sets grows by one, and the key's entry is a fresh one (new
\* value, TTL and insertion time), hence not expired before its TTL runs
\* again and not older than any other entry.
C39_OverwriteEvictsNothing ==
    [][\A k \in Keys :
         (Did("set", k) /\ k \in DOMAIN store)
            => /\ DOMAIN store' = DOMAIN store
               /\ \A j \in (DOMAIN store) \ {k} : store'[j] = store[j]
               /\ stats'.evictions = stats.evictions
               /\ stats'.sets = stats.sets + 1
               /\ Replaced(k)
               /\ ~is_expired(store'[k], now)
               /\ \A j \in DOMAIN store' :
                    store'[j].inserted_at <= store'[k].inserted_at]_vars

\* a full cache of two whose older entry, expired meanwhile, was overwritten
\* with another value and TTL: both keys are still there, nothing was evicted
C39_Witness ==
    /\ last.op = "set" /\ last.key = WatchedKey
    /\ max_size = 2 /\ MapLen(store) = 2
    /\ stats.sets = 3 /\ stats.evictions = 0
    /\ store[WatchedKey] = CacheEntryNew("b", 2, 1)
    /\ \E j \in DOMAIN store : j # WatchedKey /\ store[j].inserted_at = 0


(***************************************************************************)
(* The breaker while HalfOpen, and its state invariants (SpecBreaker).     *)
(***************************************************************************)
\* C34: a failed call while the breaker is HalfOpen adds one to
\* failure_count and records last_failure_time, and the breaker becomes Open
\* if and only if failure_count is then at least failure_threshold;
\* otherwise it stays HalfOpen.
C34_HalfOpenFailure ==
    [][(OperationReturned /\ breaker.state = "HalfOpen" /\ ~ReturnedOutcome.ok)
         => /\ breaker'.failure_count = breaker.failure_count + 1
            /\ breaker'.last_failure_time = Some(now)
            /\ breaker'.state \in {"Open", "HalfOpen"}
            /\ breaker'.state = "Open"
                  <=> breaker'.failure_count >= breaker.failure_threshold]_vars

\* with a threshold of two, a call has failed after a success in HalfOpen and
\* the breaker is still HalfOpen, with one failure counted
C34_Witness ==
    /\ bpc = "idle" /\ blast.ran
    /\ \E o \in blast.ret : ~o.ok
    /\ blast.pre.state = "HalfOpen" /\ blast.pre.failure_count = 0
    /\ breaker.state = "HalfOpen" /\ breaker.failure_count = 1
    /\ breaker.last_failure_time = Some(now)

\* C37: for a breaker built with failure_threshold >= 1, in every state:
\* Open implies failure_count >= failure_threshold and last_failure_time set;
\* Closed implies failure_count < failure_threshold; HalfOpen implies
\* success_count < success_threshold.
C37_BreakerInvariants ==
    breaker.failure_threshold >= 1 =>
        /\ breaker.state = "Open" =>
              /\ breaker.failure_count >= breaker.failure_threshold
              /\ breaker.last_failure_time # None
        /\ breaker.state = "Closed" =>
              breaker.failure_count < breaker.failure_threshold
        /\ breaker.state = "HalfOpen" =>
              breaker.success_count < breaker.success_threshold

\* the breaker, closed once by two successes and opened again, has become
\* HalfOpen a second time: the call now running found it Open with the old
\* success_count and started from 0
C37_Witness ==
    /\ breaker.failure_threshold >= 1
    /\ bpc = "running"
    /\ blast.pre.state = "Open" /\ blast.pre.success_count = SuccessThreshold
    /\ breaker.state = "HalfOpen" /\ breaker.success_count = 0

\* C38: the breaker moves from HalfOpen to Closed only when the last
\* success_threshold calls that ran the operation all succeeded: the closing
\* call completes an unbroken run of success_threshold successes (bstreak).
C38_ClosesOnlyAfterUnbrokenSuccesses ==
    [][(OperationReturned /\ breaker.state = "HalfOpen" /\ breaker'.state = "Closed")
         => bstreak' = SuccessThreshold]_vars


(***************************************************************************)
(* Concurrent get_connection on a pool with a healthy connection           *)
(* (SpecSelect: health and clock do not change during the calls).          *)
(***************************************************************************)
\* C40: when at least one connection of the pool is healthy, every
\* get_connection call, under any interleaving with other calls, returns a
\* connection that is healthy or unhealthy with its cooldown elapsed.
C40_NeverServesUnhealthy ==
    (\E i \in 1..Len(connections) : connections[i].is_healthy)
        => \A t \in SelTasks : \A j \in 1..Len(gret[t]) :
              LET h == connections[gret[t][j] + 1] IN
              h.is_healthy \/ CooledDown(h, config, now)


(***************************************************************************)
(* The delays of with_retry without jitter (SpecRetry).  rlog.sleeps is k, *)
(* the number of the retry the latest sleep preceded, rlog.delay its       *)
(* length.                                                                 *)
(***************************************************************************)
RECURSIVE Pow(_, _)
Pow(b, e) == IF e = 0 THEN 1 ELSE b * Pow(b, e - 1)

RECURSIVE Gcd(_, _)
Gcd(a, b) == IF b = 0 THEN a ELSE Gcd(b, a % b)

\* initial_backoff * multiplier^(k-1), cut to whole ms; the multiplier, kept
\* in hundredths, is taken as a fraction in lowest terms
ClosedFormBackoff(cfg, k) ==
    LET g == Gcd(cfg.multiplier, 100) IN
    (cfg.initial_backoff * Pow(cfg.multiplier \div g, k - 1)) \div Pow(100 \div g, k - 1)

\* b(1) = initial_backoff, b(k+1) = min(b(k) * multiplier cut to whole ms,
\* max_backoff)
RECURSIVE CappedBackoff(_, _)
CappedBackoff(cfg, k) ==
    IF k = 1 THEN cfg.initial_backoff
    ELSE LET prev == CappedBackoff(cfg, k - 1)
             next == (prev * cfg.multiplier) \div 100
         IN  IF next < cfg.max_backoff THEN next ELSE cfg.max_backoff

SleptWithoutJitter == ~rcfg.use_jitter /\ rlog.sleeps >= 1

RECURSIVE SeededAverage(_)
SeededAverage(ss) ==
    IF Len(ss) = 1 THEN ss[1]
    ELSE (SeededAverage(SubSeq(ss, 1, Len(ss) - 1)) * 9 + ss[Len(ss)]) \div 10

\* C33: after mark_healthy calls with samples s1, ..., sn (0 included),
\* avg_response_time_ms is the value obtained by starting from s1 and applying
\* new_avg = (old_avg * 9 + s) / 10, in integers, for every later sample.
C33_AverageIsSeededEma ==
    samples # << >> => connections[1].avg_response_time_ms = SeededAverage(samples)


(***************************************************************************)
(* The tiers of EvmCache (SpecEvm).                                        *)
(***************************************************************************)
\* the configured TTL the claim names for each tier, as a Duration
ConfiguredTtl(tier) ==
    CASE tier = "balance" -> from_secs(ecfg.balance_ttl_secs)
      [] tier = "tx_status" -> from_secs(ecfg.transaction_status_ttl_secs)
      [] tier = "block" -> from_secs(ecfg.block_data_ttl_secs)

\* C35: each tier has its own store and TTL: set_balance, set_tx_status and
\* set_block insert with balance_ttl_secs, transaction_status_ttl_secs and
\* block_data_ttl_secs respectively, and a get or set on one tier leaves the
\* entries and stats of the other two tiers unchanged.
C35_TiersIndependent ==
    [][\A tier \in Tiers :
         (elast'.op \in {"get", "set"} /\ elast'.tier = tier)
            => /\ \A other \in Tiers \ {tier} : tiers'[other] = tiers[other]
               /\ elast'.op = "set" =>
                    /\ elast'.key \in DOMAIN tiers'[tier].store
                    /\ tiers'[tier].store[elast'.key].ttl = ConfiguredTtl(tier)
                    /\ tiers'[tier].store[elast'.key].inserted_at = now
                    /\ tiers'[tier].stats.sets = tiers[tier].stats.sets + 1
               /\ elast'.op = "get" => tiers'[tier].store = tiers[tier].store]_vars

\* after a set_balance and a set_tx_status the two tiers hold one entry each,
\* with different TTLs, and the block tier has seen nothing
C35_Witness ==
    /\ elast.op = "set" /\ elast.tier = "tx_status"
    /\ tiers["balance"].stats.sets = 1 /\ tiers["tx_status"].stats.sets = 1
    /\ \E k \in DOMAIN tiers["balance"].store :
          tiers["balance"].store[k].ttl = from_secs(0)
    /\ tiers["tx_status"].store["0xT"].ttl = from_secs(1)
    /\ tiers["block"].stats = CacheStatsDefault /\ tiers["block"].store = << >>


(***************************************************************************)
(* Freedom from deadlock (SpecLocksFair).                                  *)
(***************************************************************************)
\* the task has a step it can take now
CanGoOn(t) ==
    \/ AtReturn(t)
    \/ /\ Busy(t) /\ ~AtReturn(t)
       /\ \/ AtStep(t).act = "release"
          \/ ~Queued(t, AtStep(t).lock)
          \/ Head(lqueue[AtStep(t).lock]) = t
             /\ Compatible(AtStep(t).lock, AtStep(t).mode)

\* the locks the task holds
HeldBy(t) == {l \in LockNames : t \in lheld[l].readers \cup lheld[l].writers}

\* store comes before stats, the connection list before a health lock
LockRank(lock) ==
    CASE lock \in {"store", "list"} -> 1
      [] OTHER -> 2

\* C36: under any interleaving of concurrent calls on one Cache and one pool
\* no deadlock is reachable: whenever calls are in progress one of them can
\* take a step; a task asks for a lock only while it holds none that comes
\* later in the order (store before stats, connection list before health);
\* and every started call returns.
C36_NoDeadlock ==
    /\ []((\E t \in LockTasks : Busy(t)) => \E t \in LockTasks : CanGoOn(t))
    /\ [](\A t \in LockTasks :
             (Busy(t) /\ ~AtReturn(t) /\ AtStep(t).act = "acquire")
                => \A l \in HeldBy(t) : LockRank(l) < LockRank(AtStep(t).lock))
    /\ \A t \in LockTasks : Busy(t) ~> ~Busy(t)

\* a call that writes the store holds the store lock and waits in the queue
\* of the stats lock, which a stats() call holds
C36_Witness ==
    \E t, u \in LockTasks :
       /\ t \in lheld["store"].writers /\ Queued(t, "stats")
       /\ u \in lheld["stats"].readers /\ AtReturn(u)

=============================================================================
